---- MODULE Spec2Model ----
(***************************************************************************)
(* ddbmap: a map-like view of a DynamoDB table.                            *)
(*                                                                         *)
(* The model covers DynamoMap's single-item operations (load, store,       *)
(* delete, the conditional puts and the load-or-store loop) issued by      *)
(* concurrent callers against one table, on the Itemable surface and on    *)
(* the typed one that marshals its arguments, RangeItems with its scan     *)
(* workers, the construction of the map by NewMap (DescribeTable,          *)
(* CreateTable), EnableTTL, and the sync.Map-backed Map of NewSyncMap run  *)
(* side by side with the DynamoMap.  The remote table is the environment:  *)
(* a leader copy that every write and every strongly consistent read goes  *)
(* to, a lagging replica that eventually consistent reads are served from, *)
(* a table status and a time to live setting that the remote store and    *)
(* its other clients change, and a wall clock.                             *)
(***************************************************************************)
EXTENDS Integers, Sequences, FiniteSets, TLC

\* ------------------------------------------------------------------ bounds
MaxKey == 2        \* hash-key values used by the callers: 1..MaxKey
MaxVer == 1        \* version attribute values: 0..MaxVer
MaxTTL == 1        \* the longest TimeToLiveDuration, in clock ticks
MaxConc == 2       \* ScanConcurrency is drawn from -1..MaxConc
MaxPage == 3       \* a page of a scan holds 1..MaxPage items
MaxItem == 4       \* a scanned table holds the keys 1..n, n <= MaxItem
MaxSent == 3       \* the requests of one call are counted up to MaxSent
TicksPerSecond == 2 \* resolution of the wall clock: ticks in one second
MaxNow == 4        \* the wall clock runs from 0 to MaxNow ticks
MaxDur == 3        \* with a running clock TimeToLiveDuration is in -1..MaxDur
MaxCalls == 2      \* EnableTTL is called up to MaxCalls times on one map

Keys == 1 .. MaxKey
Vers == 0 .. MaxVer

\* The two callers of the concurrency scenarios, each with its own payload.
Callers == {"c1", "c2"}
NameOf(c) == IF c = "c1" THEN 1 ELSE 2

\* ------------------------------------------------------- table configuration
HashKeyName == "id"
RangeKeyName == ""
VersionName == "ver"
DefaultTimeToLiveName == "TTL"

\* error codes; NoErr is Go's nil error
NoErr == "nil"
ErrCodeConditionalCheckFailedException == "ConditionalCheckFailedException"
ErrRemote == "ProvisionedThroughputExceededException"
ErrValidation == "ValidationException"
ErrMarshal == "InvalidMarshalError"
errEarlyTermination == "ddbmap early termination"

VARIABLES
    table,                      \* remote table, leader copy: hash key -> Item
    replica,                    \* remote table, copy read without ConsistentRead
    ReadWithStrongConsistency,  \* TableConfig.ReadWithStrongConsistency
    TimeToLiveDuration,         \* TableConfig.TimeToLiveDuration
    now,                        \* wall clock, in ticks since the epoch
    pc,                         \* per caller: "idle", "call", "put", "done"
    call,                       \* per caller: the invocation in progress
    ret,                        \* per caller: what the last invocation returned
    expect                      \* the map the callers were told they built

storeVars == <<table, replica, ReadWithStrongConsistency, TimeToLiveDuration,
               now, pc, call, ret, expect>>

VARIABLES
    ScanConcurrency,   \* TableConfig.ScanConcurrency
    pageSize,          \* how many items the remote store puts in one page
    segOf,             \* the remote store's assignment of keys to segments
    rpc,               \* RangeItems: "idle", "serial", "wait", "returned"
    rangeRet,          \* RangeItems: the error it returned
    wpc,               \* per worker: "none", "fetch", "deliver", "consume", "check", "stopped"
    input,             \* per worker: its ScanInput (0 and -1 are nil)
    page,              \* per worker: resp.Items not yet given to the consumer
    lek,               \* per worker: resp.LastEvaluatedKey (0 is nil)
    wret,              \* per worker: what work() returned
    groupErr,          \* errgroup: the first non-nil error of a worker
    ctxErr,            \* errgroup: TRUE once the shared context is cancelled
    hist               \* observations of the scan kept for the properties

scanVars == <<ScanConcurrency, pageSize, segOf, rpc, rangeRet, wpc, input,
              page, lek, wret, groupErr, ctxErr, hist>>

VARIABLES
    tableStatus,       \* remote table: "" when there is none, else its status
    keySchema,         \* remote table: attribute names of its hash and range key
    tc,                \* the TableConfig NewMap is called on
    im,                \* NewMap: the DynamoMap it builds (its key names)
    npc,               \* NewMap: "idle", "describe", "sleep", "create", "returned";
                       \* a later DescribeTable: "describe2", "sleep2", "returned2"
    newMapRet,         \* NewMap: what it returned (a map or nil, and the error)
    life               \* observations of the construction kept for the properties

lifeVars == <<tableStatus, keySchema, tc, im, npc, newMapRet, life>>

VARIABLES
    TimeToLiveName,    \* TableConfig.TimeToLiveName ("" selects the default)
    ValueUnmarshaller  \* TableConfig.ValueUnmarshaller: TRUE when one is set

cfgVars == <<TimeToLiveName, ValueUnmarshaller>>

VARIABLES
    timeToLive,        \* remote table: its TimeToLiveDescription
    epc,               \* EnableTTL: "idle", "describe", "update", "returned"
    enableRet,         \* EnableTTL: the error it returned
    ttlHist            \* observations of the EnableTTL calls for the properties

ttlVars == <<timeToLive, epc, enableRet, ttlHist>>

VARIABLES
    sm,                \* the sync.Map of the Map NewSyncMap returns: key -> value
    sret,              \* per caller: what that Map returned for the same call
    faulted            \* TRUE once a request of the DynamoMap has failed

syncVars == <<sm, sret, faulted>>

VARIABLES
    scan2              \* a second RangeItems call on the same map: its locals

moreVars == <<cfgVars, ttlVars, syncVars, scan2>>

vars == <<storeVars, scanVars, lifeVars, moreVars>>

\* ------------------------------------------------------------------- items
\* An Item is a map from attribute names to values; the empty map is what
\* GetItem answers for a key that is not there.
NoItem == [a \in {} |-> 0]

MkItem(id, ver, name) ==
    [a \in {"id", "ver", "name"} |->
        IF a = "id" THEN id ELSE IF a = "ver" THEN ver ELSE name]

KeyItem(id) == [a \in {"id"} |-> id]

\* (mutant) the projection keeps every attribute of the item
Project_whole(item, attrs) ==
    item
\* Project: a new item with those of the named attributes the item has
Project(item, attrs) ==
    [a \in (attrs \cap DOMAIN item) |-> item[a]]

Ranged == RangeKeyName # ""

\* TableConfig.ToKeyItem for any configuration of the key names
TableConfigToKeyItem(cfg, item) ==
    IF cfg.RangeKeyName # ""
    THEN Project(item, {cfg.HashKeyName, cfg.RangeKeyName})
    ELSE Project(item, {cfg.HashKeyName})

\* ToKeyItem of the map the callers use
ToKeyItem(item) ==
    TableConfigToKeyItem([HashKeyName |-> HashKeyName,
                          RangeKeyName |-> RangeKeyName], item)

\* ------------------------------------------------------------ remote store
\* condition expressions built by the conditional puts
NoCondition == [kind |-> "none", name |-> "", value |-> 0]
\* (mutant) the put is sent without its condition
AttributeNotExists_dropped(name) == [kind |-> "none", name |-> name, value |-> 0]
AttributeNotExists(name) == [kind |-> "attribute_not_exists", name |-> name, value |-> 0]
\* (mutant) the condition names the hash key instead of the version
NameEqual_hashKey(name, value) == [kind |-> "equal", name |-> HashKeyName, value |-> value]
NameEqual(name, value) == [kind |-> "equal", name |-> name, value |-> value]

\* DynamoDB evaluates a condition against the item stored under the same key
ConditionHolds(cond, existing) ==
    CASE cond.kind = "none" -> TRUE
      [] cond.kind = "attribute_not_exists" -> cond.name \notin DOMAIN existing
      [] cond.kind = "equal" ->
            cond.name \in DOMAIN existing /\ existing[cond.name] = cond.value

\* (mutant) the ConsistentRead flag is not passed on
GetItem_stale(key, consistent) ==
    replica[key[HashKeyName]]

\* GetItem: the leader copy with ConsistentRead, the replica without
GetItem(key, consistent) ==
    IF consistent THEN table[key[HashKeyName]] ELSE replica[key[HashKeyName]]

\* GetItem: error code of the response; a key without the hash key is rejected
GetItemErr(key, fail) ==
    IF fail THEN ErrRemote
    ELSE IF HashKeyName \notin DOMAIN key THEN ErrValidation
    ELSE NoErr

\* PutItem: error code of the response; fail is a throttled or broken request
PutItemErr(item, cond, fail) ==
    IF fail THEN ErrRemote
    ELSE IF HashKeyName \notin DOMAIN item THEN ErrValidation
    ELSE IF ~ConditionHolds(cond, table[item[HashKeyName]])
         THEN ErrCodeConditionalCheckFailedException
    ELSE NoErr

PutItemTable(item, cond, fail) ==
    IF PutItemErr(item, cond, fail) = NoErr
    THEN [table EXCEPT ![item[HashKeyName]] = item]
    ELSE table

DeleteItemErr(key, fail) ==
    IF fail THEN ErrRemote
    ELSE IF HashKeyName \notin DOMAIN key THEN ErrValidation
    ELSE NoErr

DeleteItemTable(key, fail) ==
    IF DeleteItemErr(key, fail) = NoErr
    THEN [table EXCEPT ![key[HashKeyName]] = NoItem]
    ELSE table

\* the replica catches up with the leader on one key
Replicate(k) ==
    /\ replica[k] # table[k]
    /\ replica' = [replica EXCEPT ![k] = table[k]]
    /\ UNCHANGED <<table, ReadWithStrongConsistency, TimeToLiveDuration, now,
                   pc, call, ret, expect>>
    /\ UNCHANGED <<scanVars, lifeVars, moreVars>>

\* ------------------------------------------------------- DynamoMap, helpers
\* time.Time.Unix: whole seconds since the epoch, the fraction dropped
Unix(t) == t \div TicksPerSecond

\* the name of the ttl attribute
ttlName == IF TimeToLiveName = "" THEN DefaultTimeToLiveName
           ELSE TimeToLiveName

\* (mutant) the attribute is the time of the put, the duration not added
ttlItem_storeTime(item) ==
    IF TimeToLiveDuration > 0
    THEN [a \in (DOMAIN item) \cup {ttlName} |->
             IF a = ttlName THEN Unix(now) ELSE item[a]]
    ELSE item

\* store stamps the ttl attribute into the item it was given before the put
ttlItem(item) ==
    IF TimeToLiveDuration > 0
    THEN [a \in (DOMAIN item) \cup {ttlName} |->
             IF a = ttlName THEN Unix(now + TimeToLiveDuration) ELSE item[a]]
    ELSE item

\* store: the error it returns, and the table it leaves
storeErr(item, cond, fail) == PutItemErr(ttlItem(item), cond, fail)
storeTable(item, cond, fail) == PutItemTable(ttlItem(item), cond, fail)

\* load: (value, ok, err)
load(key, fail) ==
    LET err == GetItemErr(ToKeyItem(key), fail)
    IN IF err # NoErr THEN [item |-> NoItem, ok |-> FALSE, err |-> err]
       ELSE LET resp == GetItem(ToKeyItem(key), ReadWithStrongConsistency)
            IN [item |-> resp, ok |-> DOMAIN resp # {}, err |-> NoErr]

\* (mutant) a failed condition is returned as an error
storeItemIfAbsent_raw(item, fail) ==
    LET err == storeErr(item, AttributeNotExists(HashKeyName), fail)
    IN [ok |-> err = NoErr, err |-> err]

\* (mutant) every failed put is taken for a failed condition
storeItemIfAbsent_swallow(item, fail) ==
    LET err == storeErr(item, AttributeNotExists(HashKeyName), fail)
    IN [ok |-> err = NoErr, err |-> NoErr]

\* storeItemIfAbsent: (stored, err)
storeItemIfAbsent(item, fail) ==
    LET err == storeErr(item, AttributeNotExists(HashKeyName), fail)
    IN IF err = NoErr THEN [ok |-> TRUE, err |-> NoErr]
       ELSE IF err # ErrCodeConditionalCheckFailedException
            THEN [ok |-> FALSE, err |-> err]
       ELSE [ok |-> FALSE, err |-> NoErr]

\* (mutant) the put is sent without the condition on the version
storeItemIfVersion_unconditional(item, version, fail) ==
    LET err == storeErr(item, NoCondition, fail)
    IN [ok |-> err = NoErr, err |-> err]

\* storeItemIfVersion: (ok, err)
storeItemIfVersion(item, version, fail) ==
    LET err == storeErr(item, NameEqual(VersionName, version), fail)
    IN IF err = ErrCodeConditionalCheckFailedException
       THEN [ok |-> FALSE, err |-> NoErr]
       ELSE [ok |-> err = NoErr, err |-> err]

\* ------------------------------------------------------ DynamoMap, callers
Ops == {"LoadItem", "StoreItem", "DeleteItem", "StoreItemIfAbsent",
        "StoreItemIfVersion", "LoadOrStoreItem"}

\* a typed value: an Item, a struct that marshals to item, or a value of a
\* type that cannot be marshalled
NoVal == [kind |-> "none", item |-> NoItem]

\* a call: the method, its arguments (val on the typed surface, item on the
\* Itemable one), whether the key was absent when it was made, the number of
\* requests it has sent to the remote store, the clock when it sent the last
\* one, and whether another caller deleted its key while it was running
NoCall == [op |-> "none", item |-> NoItem, version |-> 0, absent |-> FALSE,
           val |-> NoVal, sent |-> 0, at |-> 0, deleted |-> FALSE]

\* one more request sent
More(n) == IF n < MaxSent THEN n + 1 ELSE n
NoRet == [ok |-> FALSE, err |-> NoErr, item |-> NoItem, from |-> "none",
          fault |-> FALSE]

\* the arguments of a call; LoadItem and DeleteItem are given a key
Args(op, k, v, n, e) ==
    [op |-> op,
     item |-> IF op \in {"LoadItem", "DeleteItem"} THEN KeyItem(k)
              ELSE MkItem(k, v, n),
     version |-> IF op = "StoreItemIfVersion" THEN e ELSE 0,
     absent |-> table[k] = NoItem,
     val |-> NoVal, sent |-> 0, at |-> now, deleted |-> FALSE]

Calls(ops, vers, names) ==
    {Args(op, k, v, n, e) : op \in ops, k \in Keys,
                            v \in vers, n \in names, e \in vers}

\* a caller invokes one of the operations in ops
Invoke(c, ops, vers, names) ==
    /\ pc[c] = "idle"
    /\ \E a \in Calls(ops, vers, names) : call' = [call EXCEPT ![c] = a]
    /\ pc' = [pc EXCEPT ![c] = "call"]
    /\ ret' = [ret EXCEPT ![c] = NoRet]
    /\ UNCHANGED <<table, replica, ReadWithStrongConsistency,
                   TimeToLiveDuration, now, expect>>
    /\ UNCHANGED <<scanVars, lifeVars, moreVars>>

\* the caller has looked at the result and is ready for its next call
Again(c) ==
    /\ pc[c] = "done"
    /\ pc' = [pc EXCEPT ![c] = "idle"]
    /\ call' = [call EXCEPT ![c] = NoCall]
    /\ ret' = [ret EXCEPT ![c] = NoRet]
    /\ UNCHANGED <<table, replica, ReadWithStrongConsistency,
                   TimeToLiveDuration, now, expect>>
    /\ UNCHANGED <<scanVars, lifeVars, moreVars>>

Return(c, r) ==
    /\ pc' = [pc EXCEPT ![c] = "done"]
    /\ ret' = [ret EXCEPT ![c] = r]

\* the calls after c sent a DeleteItem for key: the calls of the other callers
\* that are running on the same key have had it deleted under them
Disturbed(c, key, err) ==
    [o \in Callers |->
        IF o = c THEN [call[c] EXCEPT !.sent = More(@), !.at = now]
        ELSE IF /\ err = NoErr /\ pc[o] \in {"call", "put"}
                /\ HashKeyName \in DOMAIN call[o].item
                /\ call[o].item[HashKeyName] = key[HashKeyName]
             THEN [call[o] EXCEPT !.deleted = TRUE]
        ELSE call[o]]

\* what the callers were told: the item of the last put reported successful
Told(item, done) ==
    IF done THEN [expect EXCEPT ![item[HashKeyName]] = item] ELSE expect

LoadItem(c) ==
    /\ pc[c] = "call" /\ call[c].op = "LoadItem"
    /\ \E fail \in BOOLEAN :
         LET r == load(call[c].item, fail)
         IN Return(c, [ok |-> r.ok, err |-> r.err, item |-> r.item,
                       from |-> "resp", fault |-> fail])
    /\ call' = [call EXCEPT ![c].sent = More(@), ![c].at = now]
    /\ UNCHANGED <<table, replica, ReadWithStrongConsistency,
                   TimeToLiveDuration, now, expect>>
    /\ UNCHANGED <<scanVars, lifeVars, moreVars>>

\* (mutant) a put that failed with an error is sent once more
StoreItem_retry(c) ==
    /\ pc[c] = "call" /\ call[c].op = "StoreItem"
    /\ \E fail \in BOOLEAN :
         LET item == call[c].item
             err == storeErr(item, NoCondition, fail)
         IN /\ table' = storeTable(item, NoCondition, fail)
            /\ call' = [call EXCEPT ![c].item = ttlItem(item),
                                    ![c].sent = More(@), ![c].at = now]
            /\ expect' = Told(ttlItem(item), err = NoErr)
            /\ IF err # NoErr /\ call[c].sent = 0
               THEN UNCHANGED <<pc, ret>>
               ELSE Return(c, [ok |-> err = NoErr, err |-> err,
                               item |-> NoItem, from |-> "none",
                               fault |-> fail])
    /\ UNCHANGED <<replica, ReadWithStrongConsistency, TimeToLiveDuration, now>>
    /\ UNCHANGED <<scanVars, lifeVars, moreVars>>

StoreItem(c) ==
    /\ pc[c] = "call" /\ call[c].op = "StoreItem"
    /\ \E fail \in BOOLEAN :
         LET item == call[c].item
             err == storeErr(item, NoCondition, fail)
         IN /\ table' = storeTable(item, NoCondition, fail)
            /\ call' = [call EXCEPT ![c].item = ttlItem(item),
                                    ![c].sent = More(@), ![c].at = now]
            /\ expect' = Told(ttlItem(item), err = NoErr)
            /\ Return(c, [ok |-> err = NoErr, err |-> err, item |-> NoItem,
                          from |-> "none", fault |-> fail])
    /\ UNCHANGED <<replica, ReadWithStrongConsistency, TimeToLiveDuration, now>>
    /\ UNCHANGED <<scanVars, lifeVars, moreVars>>

DeleteItem(c) ==
    /\ pc[c] = "call" /\ call[c].op = "DeleteItem"
    /\ \E fail \in BOOLEAN :
         LET key == ToKeyItem(call[c].item)
             err == DeleteItemErr(key, fail)
         IN /\ table' = DeleteItemTable(key, fail)
            /\ expect' = IF err = NoErr
                         THEN [expect EXCEPT ![key[HashKeyName]] = NoItem]
                         ELSE expect
            /\ call' = Disturbed(c, key, err)
            /\ Return(c, [ok |-> err = NoErr, err |-> err, item |-> NoItem,
                          from |-> "none", fault |-> fail])
    /\ UNCHANGED <<replica, ReadWithStrongConsistency, TimeToLiveDuration, now>>
    /\ UNCHANGED <<scanVars, lifeVars, moreVars>>

StoreItemIfAbsent(c) ==
    /\ pc[c] = "call" /\ call[c].op = "StoreItemIfAbsent"
    /\ \E fail \in BOOLEAN :
         LET item == call[c].item
             r == storeItemIfAbsent(item, fail)
         IN /\ table' = storeTable(item, AttributeNotExists(HashKeyName), fail)
            /\ call' = [call EXCEPT ![c].item = ttlItem(item),
                                    ![c].sent = More(@), ![c].at = now]
            /\ expect' = Told(ttlItem(item), r.ok)
            /\ Return(c, [ok |-> r.ok, err |-> r.err, item |-> NoItem,
                          from |-> "none", fault |-> fail])
    /\ UNCHANGED <<replica, ReadWithStrongConsistency, TimeToLiveDuration, now>>
    /\ UNCHANGED <<scanVars, lifeVars, moreVars>>

StoreItemIfVersion(c) ==
    /\ pc[c] = "call" /\ call[c].op = "StoreItemIfVersion"
    /\ \E fail \in BOOLEAN :
         LET item == call[c].item
             version == call[c].version
             r == storeItemIfVersion(item, version, fail)
         IN /\ table' = storeTable(item, NameEqual(VersionName, version), fail)
            /\ call' = [call EXCEPT ![c].item = ttlItem(item),
                                    ![c].sent = More(@), ![c].at = now]
            /\ expect' = Told(ttlItem(item), r.ok)
            /\ Return(c, [ok |-> r.ok, err |-> r.err, item |-> NoItem,
                          from |-> "none", fault |-> fail])
    /\ UNCHANGED <<replica, ReadWithStrongConsistency, TimeToLiveDuration, now>>
    /\ UNCHANGED <<scanVars, lifeVars, moreVars>>

\* loadOrStore, first half of an iteration: the load
loadOrStoreLoad(c) ==
    /\ pc[c] = "call" /\ call[c].op = "LoadOrStoreItem"
    /\ \E fail \in BOOLEAN :
         LET r == load(call[c].item, fail)
         IN IF r.ok \/ r.err # NoErr
            THEN Return(c, [ok |-> r.ok, err |-> r.err, item |-> r.item,
                            from |-> "resp", fault |-> fail])
            ELSE /\ pc' = [pc EXCEPT ![c] = "put"]
                 /\ ret' = ret
    /\ call' = [call EXCEPT ![c].sent = More(@), ![c].at = now]
    /\ UNCHANGED <<table, replica, ReadWithStrongConsistency,
                   TimeToLiveDuration, now, expect>>
    /\ UNCHANGED <<scanVars, lifeVars, moreVars>>

\* loadOrStore, second half of an iteration: the conditional put
loadOrStoreStore(c) ==
    /\ pc[c] = "put" /\ call[c].op = "LoadOrStoreItem"
    /\ \E fail \in BOOLEAN :
         LET item == call[c].item
             r == storeItemIfAbsent(item, fail)
         IN /\ table' = storeTable(item, AttributeNotExists(HashKeyName), fail)
            /\ call' = [call EXCEPT ![c].item = ttlItem(item),
                                    ![c].sent = More(@), ![c].at = now]
            /\ expect' = Told(ttlItem(item), r.ok)
            /\ IF r.ok \/ r.err # NoErr
               THEN Return(c, [ok |-> ~r.ok, err |-> r.err,
                               item |-> ttlItem(item), from |-> "arg",
                               fault |-> fail])
               ELSE /\ pc' = [pc EXCEPT ![c] = "call"]
                    /\ ret' = ret
    /\ UNCHANGED <<replica, ReadWithStrongConsistency, TimeToLiveDuration, now>>
    /\ UNCHANGED <<scanVars, lifeVars, moreVars>>

\* --------------------------------------------- DynamoMap, the typed surface
\* MarshalItem: an Item or an Itemable is its own item, any other value goes
\* through dynamodbattribute.MarshalMap, which fails on a type it cannot encode
MarshalItem(val) ==
    IF val.kind = "unsupported" THEN [item |-> NoItem, err |-> ErrMarshal]
    ELSE [item |-> val.item, err |-> NoErr]

\* unmarshalValue: the item itself when no ValueUnmarshaller is configured,
\* else what the unmarshaller makes of the item: a struct with its attributes
unmarshalValue(item) ==
    IF ~ValueUnmarshaller THEN item
    ELSE [kind |-> "struct", item |-> item]

TypedOps == {"Load", "Store", "Delete", "StoreIfAbsent", "LoadOrStore",
             "StoreIfVersion"}

\* an item that lacks the hash key attribute
KeylessItem(v, n) == [a \in {"ver", "name"} |-> IF a = "ver" THEN v ELSE n]

\* the values a caller passes: structs with the key, Items without it, and a
\* value of a type MarshalMap rejects
Vals(vers, names) ==
    {[kind |-> "struct", item |-> MkItem(k, v, n)] :
          k \in Keys, v \in vers, n \in names}
    \cup {[kind |-> "Item", item |-> KeylessItem(v, n)] :
          v \in vers, n \in names}
    \cup {[kind |-> "unsupported", item |-> NoItem]}

TypedArgs(op, val, e) ==
    [op |-> op, item |-> NoItem,
     version |-> IF op = "StoreIfVersion" THEN e ELSE 0,
     absent |-> /\ HashKeyName \in DOMAIN val.item
                /\ table[val.item[HashKeyName]] = NoItem,
     val |-> val, sent |-> 0, at |-> now, deleted |-> FALSE]

TypedCalls(ops, vers, names) ==
    {TypedArgs(op, val, e) : op \in ops, val \in Vals(vers, names), e \in vers}

\* a caller invokes one of the methods of Map in ops
InvokeTyped(c, ops, vers, names) ==
    /\ pc[c] = "idle"
    /\ \E a \in TypedCalls(ops, vers, names) : call' = [call EXCEPT ![c] = a]
    /\ pc' = [pc EXCEPT ![c] = "call"]
    /\ ret' = [ret EXCEPT ![c] = NoRet]
    /\ UNCHANGED <<table, replica, ReadWithStrongConsistency,
                   TimeToLiveDuration, now, expect>>
    /\ UNCHANGED <<scanVars, lifeVars, moreVars>>

\* forbidErr(err) with err != nil: the call panics with err
Panic(c, err, fail) ==
    /\ pc' = [pc EXCEPT ![c] = "panic"]
    /\ ret' = [ret EXCEPT ![c] = [ok |-> FALSE, err |-> err, item |-> NoItem,
                                  from |-> "panic", fault |-> fail]]

\* the named result err of Store, Delete, StoreIfAbsent and LoadOrStore when
\* MarshalItem failed: the err of the if statement is a variable of its own,
\* the named result was never assigned
namedErr(marshalErr) == NoErr

Load(c) ==
    /\ pc[c] = "call" /\ call[c].op = "Load"
    /\ LET m == MarshalItem(call[c].val)
       IN IF m.err # NoErr
          THEN /\ Return(c, [ok |-> FALSE, err |-> m.err, item |-> NoItem,
                             from |-> "none", fault |-> FALSE])
               /\ call' = call
          ELSE \E fail \in BOOLEAN :
                 LET r == load(m.item, fail)
                 IN /\ Return(c, [ok |-> r.ok, err |-> r.err,
                                  item |-> unmarshalValue(r.item),
                                  from |-> "resp", fault |-> fail])
                    /\ call' = [call EXCEPT ![c].item = m.item,
                                            ![c].sent = More(@), ![c].at = now]
    /\ UNCHANGED <<table, replica, ReadWithStrongConsistency,
                   TimeToLiveDuration, now, expect>>
    /\ UNCHANGED <<scanVars, lifeVars, moreVars>>

Store(c) ==
    /\ pc[c] = "call" /\ call[c].op = "Store"
    /\ LET m == MarshalItem(call[c].val)
       IN IF m.err = NoErr
          THEN \E fail \in BOOLEAN :
                 LET err == storeErr(m.item, NoCondition, fail)
                 IN /\ table' = storeTable(m.item, NoCondition, fail)
                    /\ call' = [call EXCEPT ![c].item = ttlItem(m.item),
                                            ![c].sent = More(@), ![c].at = now]
                    /\ expect' = Told(ttlItem(m.item), err = NoErr)
                    /\ Return(c, [ok |-> err = NoErr, err |-> err,
                                  item |-> NoItem, from |-> "none",
                                  fault |-> fail])
          ELSE /\ Return(c, [ok |-> namedErr(m.err) = NoErr,
                             err |-> namedErr(m.err), item |-> NoItem,
                             from |-> "none", fault |-> FALSE])
               /\ UNCHANGED <<table, call, expect>>
    /\ UNCHANGED <<replica, ReadWithStrongConsistency, TimeToLiveDuration, now>>
    /\ UNCHANGED <<scanVars, lifeVars, moreVars>>

Delete(c) ==
    /\ pc[c] = "call" /\ call[c].op = "Delete"
    /\ LET m == MarshalItem(call[c].val)
       IN IF m.err = NoErr
          THEN \E fail \in BOOLEAN :
                 LET key == ToKeyItem(m.item)
                     err == DeleteItemErr(key, fail)
                 IN /\ table' = DeleteItemTable(key, fail)
                    /\ call' = [Disturbed(c, key, err)
                                   EXCEPT ![c].item = m.item]
                    /\ expect' = IF err = NoErr
                                 THEN [expect EXCEPT ![key[HashKeyName]] = NoItem]
                                 ELSE expect
                    /\ Return(c, [ok |-> err = NoErr, err |-> err,
                                  item |-> NoItem, from |-> "none",
                                  fault |-> fail])
          ELSE /\ Return(c, [ok |-> namedErr(m.err) = NoErr,
                             err |-> namedErr(m.err), item |-> NoItem,
                             from |-> "none", fault |-> FALSE])
               /\ UNCHANGED <<table, call, expect>>
    /\ UNCHANGED <<replica, ReadWithStrongConsistency, TimeToLiveDuration, now>>
    /\ UNCHANGED <<scanVars, lifeVars, moreVars>>

StoreIfAbsent(c) ==
    /\ pc[c] = "call" /\ call[c].op = "StoreIfAbsent"
    /\ LET m == MarshalItem(call[c].val)
       IN IF m.err = NoErr
          THEN \E fail \in BOOLEAN :
                 LET r == storeItemIfAbsent(m.item, fail)
                 IN /\ table' = storeTable(m.item,
                                    AttributeNotExists(HashKeyName), fail)
                    /\ call' = [call EXCEPT ![c].item = ttlItem(m.item),
                                            ![c].sent = More(@), ![c].at = now]
                    /\ expect' = Told(ttlItem(m.item), r.ok)
                    /\ Return(c, [ok |-> r.ok, err |-> r.err, item |-> NoItem,
                                  from |-> "none", fault |-> fail])
          ELSE /\ Return(c, [ok |-> FALSE, err |-> namedErr(m.err),
                             item |-> NoItem, from |-> "none",
                             fault |-> FALSE])
               /\ UNCHANGED <<table, call, expect>>
    /\ UNCHANGED <<replica, ReadWithStrongConsistency, TimeToLiveDuration, now>>
    /\ UNCHANGED <<scanVars, lifeVars, moreVars>>

\* LoadOrStore: with the value marshalled the call goes on as loadOrStore
LoadOrStore(c) ==
    /\ pc[c] = "call" /\ call[c].op = "LoadOrStore"
    /\ LET m == MarshalItem(call[c].val)
       IN IF m.err = NoErr
          THEN /\ call' = [call EXCEPT ![c].op = "LoadOrStoreItem",
                                       ![c].item = m.item]
               /\ UNCHANGED <<pc, ret>>
          ELSE /\ Return(c, [ok |-> FALSE, err |-> namedErr(m.err),
                             item |-> NoItem, from |-> "none",
                             fault |-> FALSE])
               /\ call' = call
    /\ UNCHANGED <<table, replica, ReadWithStrongConsistency,
                   TimeToLiveDuration, now, expect>>
    /\ UNCHANGED <<scanVars, lifeVars, moreVars>>

\* StoreIfVersion has no error result: forbidErr on both errors
StoreIfVersion(c) ==
    /\ pc[c] = "call" /\ call[c].op = "StoreIfVersion"
    /\ LET m == MarshalItem(call[c].val)
       IN IF m.err # NoErr
          THEN /\ Panic(c, m.err, FALSE)
               /\ UNCHANGED <<table, call, expect>>
          ELSE \E fail \in BOOLEAN :
                 LET version == call[c].version
                     r == storeItemIfVersion(m.item, version, fail)
                 IN /\ table' = storeTable(m.item,
                                    NameEqual(VersionName, version), fail)
                    /\ call' = [call EXCEPT ![c].item = ttlItem(m.item),
                                            ![c].sent = More(@), ![c].at = now]
                    /\ expect' = Told(ttlItem(m.item), r.ok)
                    /\ IF r.err # NoErr
                       THEN Panic(c, r.err, fail)
                       ELSE Return(c, [ok |-> r.ok, err |-> NoErr,
                                       item |-> NoItem, from |-> "none",
                                       fault |-> fail])
    /\ UNCHANGED <<replica, ReadWithStrongConsistency, TimeToLiveDuration, now>>
    /\ UNCHANGED <<scanVars, lifeVars, moreVars>>

\* ------------------------------------------------------------------ scans
Workers == 0 .. (MaxConc - 1)

\* a ScanInput: Segment, TotalSegments and ExclusiveStartKey, nil when unset
NoInput == [Segment |-> -1, TotalSegments |-> 0, ExclusiveStartKey |-> 0]

\* observations: how often the consumer was given each key, whether it ever
\* returned false and how many items it was given after that, whether a fetch
\* failed, per worker the keys fetched and delivered and whether its own
\* consumer call returned false, and the first worker that finished with an
\* error, and per worker the number of Scan requests it sent after the context
\* was cancelled, and per worker the number of consumer calls it has made
\* that have not returned
NoHist ==
    [count |-> [k \in {} |-> 0], sawFalse |-> FALSE, after |-> 0,
     fault |-> FALSE, busy |-> [w \in Workers |-> 0],
     fetched |-> [w \in Workers |-> {}], got |-> [w \in Workers |-> {}],
     said |-> [w \in Workers |-> FALSE],
     late |-> [w \in Workers |-> 0],
     first |-> [w |-> -1, err |-> NoErr, why |-> "none"]]

RECURSIVE Ascending(_, _)
Ascending(src, keys) ==
    IF keys = {} THEN <<>>
    ELSE LET k == CHOOSE x \in keys : \A y \in keys : x <= y
         IN <<src[k]>> \o Ascending(src, keys \ {k})

\* (mutant) the cursor is ignored: every request is answered with the first
\* page of the segment
Scan_fromStart(in, consistent) ==
    LET src == IF consistent THEN table ELSE replica
        rest == {k \in DOMAIN src :
                    /\ src[k] # NoItem
                    /\ in.TotalSegments = 0 \/ segOf[k] = in.Segment}
        keys == {k \in rest : Cardinality({j \in rest : j < k}) < pageSize}
    IN [Items |-> Ascending(src, keys),
        LastEvaluatedKey |->
            IF rest = keys THEN 0
            ELSE CHOOSE x \in keys : \A y \in keys : y <= x]

\* Scan: one page of the segment after ExclusiveStartKey, in key order, and
\* the LastEvaluatedKey, nil (0) when the segment has no more items
Scan(in, consistent) ==
    LET src == IF consistent THEN table ELSE replica
        rest == {k \in DOMAIN src :
                    /\ src[k] # NoItem
                    /\ k > in.ExclusiveStartKey
                    /\ in.TotalSegments = 0 \/ segOf[k] = in.Segment}
        keys == {k \in rest : Cardinality({j \in rest : j < k}) < pageSize}
    IN [Items |-> Ascending(src, keys),
        LastEvaluatedKey |->
            IF rest = keys THEN 0
            ELSE CHOOSE x \in keys : \A y \in keys : y <= x]

\* (mutant) every worker is given the same segment
withID_shared(workerID) ==
    [Segment |-> 0, TotalSegments |-> ScanConcurrency, ExclusiveStartKey |-> 0]

\* (mutant) segments numbered from one
withID_fromOne(workerID) ==
    [Segment |-> workerID + 1, TotalSegments |-> ScanConcurrency,
     ExclusiveStartKey |-> 0]

\* withID: the worker's own copy of the input, with its segment
withID(workerID) ==
    [Segment |-> workerID, TotalSegments |-> ScanConcurrency,
     ExclusiveStartKey |-> 0]

\* RangeItems is called: one worker without segments when ScanConcurrency
\* <= 1, else ScanConcurrency workers in an errgroup
RangeItems ==
    /\ rpc = "idle"
    /\ IF ScanConcurrency <= 1
       THEN /\ rpc' = "serial"
            /\ wpc' = [wpc EXCEPT ![0] = "fetch"]
            /\ input' = [input EXCEPT ![0] = NoInput]
       ELSE /\ rpc' = "wait"
            /\ wpc' = [w \in Workers |->
                         IF w < ScanConcurrency THEN "fetch" ELSE wpc[w]]
            /\ input' = [w \in Workers |->
                         IF w < ScanConcurrency THEN withID(w) ELSE input[w]]
    /\ hist' = [hist EXCEPT !.count = [k \in DOMAIN table |-> 0]]
    /\ UNCHANGED <<ScanConcurrency, pageSize, segOf, rangeRet, page, lek, wret,
                   groupErr, ctxErr>>
    /\ UNCHANGED <<storeVars, lifeVars, moreVars>>

\* the worker's context: nil in a serial scan
HasCtx == rpc = "wait"

\* (mutant) errgroup keeps the last error instead of the first
groupErrAfter_last(err) ==
    IF err # NoErr THEN err ELSE groupErr

\* errgroup.Go: the first non-nil error of a worker is kept
groupErrAfter(err) ==
    IF err # NoErr /\ groupErr = NoErr THEN err ELSE groupErr

\* work returns err; in an errgroup the first error also cancels the context
Finish(w, err) ==
    /\ wpc' = [wpc EXCEPT ![w] = "stopped"]
    /\ wret' = [wret EXCEPT ![w] = err]
    /\ IF HasCtx
       THEN /\ groupErr' = groupErrAfter(err)
            /\ ctxErr' = (ctxErr \/ err # NoErr)
       ELSE UNCHANGED <<groupErr, ctxErr>>

Noted(w, err, why) ==
    IF HasCtx /\ err # NoErr /\ hist.first.why = "none"
    THEN [w |-> w, err |-> err, why |-> why]
    ELSE hist.first

\* (mutant) the worker does not look at its context
cancelled_ignored == FALSE

\* w.ctx != nil && w.ctx.Err() != nil
cancelled == HasCtx /\ ctxErr

\* the Scan requests of a worker sent after the cancellation, one more
Late(w) == IF HasCtx /\ ctxErr THEN hist.late[w] + 1 ELSE hist.late[w]

\* work: fetch a page
Fetch(w) ==
    /\ wpc[w] = "fetch"
    /\ \E fail \in BOOLEAN :
         IF fail
         THEN /\ Finish(w, ErrRemote)
              /\ hist' = [hist EXCEPT !.fault = TRUE,
                                      !.late[w] = Late(w),
                                      !.first = Noted(w, ErrRemote, "fetch")]
              /\ UNCHANGED <<page, lek>>
         ELSE LET resp == Scan(input[w], ReadWithStrongConsistency)
              IN /\ page' = [page EXCEPT ![w] = resp.Items]
                 /\ lek' = [lek EXCEPT ![w] = resp.LastEvaluatedKey]
                 /\ wpc' = [wpc EXCEPT ![w] =
                              IF resp.Items = <<>> THEN "check" ELSE "deliver"]
                 /\ hist' = [hist EXCEPT !.late[w] = Late(w),
                              !.fetched[w] = @ \cup
                              {resp.Items[i][HashKeyName] :
                                    i \in DOMAIN resp.Items}]
                 /\ UNCHANGED <<wret, groupErr, ctxErr>>
    /\ UNCHANGED <<ScanConcurrency, pageSize, segOf, rpc, rangeRet, input>>
    /\ UNCHANGED <<storeVars, lifeVars, moreVars>>

\* (mutant) a worker also gives up its page once the context is cancelled
abandon_onCancel(keep) == ~keep \/ (HasCtx /\ ctxErr)

\* the page loop returns early exactly when the consumer returned false
abandon(keep) == ~keep

\* work: the consumer returns keep for the next item of the page
consumed(w) ==
    /\ \E keep \in BOOLEAN :
         LET k == Head(page[w])[HashKeyName]
             seen == [hist EXCEPT !.count[k] = @ + 1,
                                  !.got[w] = @ \cup {k},
                                  !.busy[w] = IF @ > 0 THEN @ - 1 ELSE 0,
                                  !.after = IF hist.sawFalse THEN @ + 1 ELSE @,
                                  !.sawFalse = @ \/ ~keep,
                                  !.said[w] = ~keep]
         IN IF abandon(keep)
            THEN /\ Finish(w, errEarlyTermination)
                 /\ hist' = [seen EXCEPT
                       !.first = Noted(w, errEarlyTermination, "consumer")]
                 /\ page' = page
            ELSE /\ page' = [page EXCEPT ![w] = Tail(@)]
                 /\ wpc' = [wpc EXCEPT ![w] =
                              IF Tail(page[w]) = <<>> THEN "check" ELSE "deliver"]
                 /\ hist' = seen
                 /\ UNCHANGED <<wret, groupErr, ctxErr>>
    /\ UNCHANGED <<ScanConcurrency, pageSize, segOf, rpc, rangeRet, input, lek>>
    /\ UNCHANGED <<storeVars, lifeVars, moreVars>>

\* work: run the consumer on the next item of the page, as one step
Deliver(w) ==
    /\ wpc[w] = "deliver"
    /\ consumed(w)

\* (mutant) the worker goes on to the next item while the consumer runs
inConsumer_async == "deliver"

\* where a worker is while the consumer it called runs: work calls it
\* synchronously, inside its loop over the page
inConsumer == "consume"

\* work: the worker calls the consumer on the next item of the page; nothing
\* is locked around the call
consumerCall(w) ==
    /\ wpc[w] = "deliver"
    /\ wpc' = [wpc EXCEPT ![w] = inConsumer]
    /\ hist' = [hist EXCEPT !.busy[w] = @ + 1]
    /\ UNCHANGED <<ScanConcurrency, pageSize, segOf, rpc, rangeRet, input,
                   page, lek, wret, groupErr, ctxErr>>
    /\ UNCHANGED <<storeVars, lifeVars, moreVars>>

\* work: the consumer returns to the worker that called it
consumerReturn(w) ==
    /\ wpc[w] = "consume"
    /\ consumed(w)

\* work: after the page, stop at the end of the segment or when a peer has
\* cancelled the context, else move the cursor
Check(w) ==
    /\ wpc[w] = "check"
    /\ IF lek[w] = 0
       THEN /\ Finish(w, NoErr)
            /\ UNCHANGED <<input, hist>>
       ELSE IF cancelled
       THEN /\ Finish(w, errEarlyTermination)
            /\ hist' = [hist EXCEPT
                  !.first = Noted(w, errEarlyTermination, "peer")]
            /\ UNCHANGED input
       ELSE /\ input' = [input EXCEPT ![w].ExclusiveStartKey = lek[w]]
            /\ wpc' = [wpc EXCEPT ![w] = "fetch"]
            /\ UNCHANGED <<wret, groupErr, ctxErr, hist>>
    /\ UNCHANGED <<ScanConcurrency, pageSize, segOf, rpc, rangeRet, page, lek>>
    /\ UNCHANGED <<storeVars, lifeVars, moreVars>>

\* what RangeItems makes of the errgroup's error
groupResult ==
    IF groupErr = errEarlyTermination THEN NoErr ELSE groupErr

\* (mutant) Wait returns as soon as one worker has returned
allReturned_first ==
    \E w \in Workers : wpc[w] = "stopped"

\* (mutant) Wait also waits for workers that were never started
allReturned_everyWorker ==
    \A w \in Workers : wpc[w] = "stopped"

\* group.Wait, and the synchronous call of work in a serial scan: every
\* worker that was started has returned
allReturned ==
    \A w \in Workers : wpc[w] \in {"none", "stopped"}

\* RangeItems returns: the worker's result in a serial scan, the errgroup's
\* after all workers have returned in a parallel one
RangeItemsReturn ==
    /\ rpc \in {"serial", "wait"}
    /\ allReturned
    /\ rangeRet' = IF rpc = "serial" THEN wret[0] ELSE groupResult
    /\ rpc' = "returned"
    /\ UNCHANGED <<ScanConcurrency, pageSize, segOf, wpc, input, page, lek,
                   wret, groupErr, ctxErr, hist>>
    /\ UNCHANGED <<storeVars, lifeVars, moreVars>>

\* ------------------------------------------- a second, concurrent RangeItems
\* the locals of the second call: where it is, per worker where the worker is
\* ("none", "work", "stopped"), its own copy of the input and what work
\* returned, and the errgroup of this call with its own context
NoScan2 ==
    [rpc |-> "idle", rangeRet |-> NoErr,
     wpc |-> [w \in Workers |-> "none"],
     input |-> [w \in Workers |-> NoInput],
     wret |-> [w \in Workers |-> NoErr],
     groupErr |-> NoErr, ctxErr |-> FALSE]

Scan2Idle == scan2 = NoScan2

\* RangeItems is called a second time while the first call may be running:
\* input, worker, group and ctx are new locals of this call
RangeItems2 ==
    /\ scan2.rpc = "idle"
    /\ scan2' = IF ScanConcurrency <= 1
                THEN [scan2 EXCEPT !.rpc = "serial", !.wpc[0] = "work"]
                ELSE [scan2 EXCEPT
                        !.rpc = "wait",
                        !.wpc = [w \in Workers |->
                                   IF w < ScanConcurrency THEN "work" ELSE @[w]],
                        !.input = [w \in Workers |->
                                   IF w < ScanConcurrency THEN withID(w)
                                   ELSE @[w]]]
    /\ UNCHANGED <<storeVars, scanVars, lifeVars, cfgVars, ttlVars, syncVars>>

\* (mutant) the calls share one context: an error in the second call cancels
\* the first
ctxAfterOther_shared(err) == ctxErr \/ err \notin {NoErr, "continue"}

\* the context of the first call after a worker of the second call returned
\* err: group.Go cancels the context of its own group, no other
ctxAfterOther(err) == ctxErr

\* work in the second call, one iteration of its loop: fetch a page, run the
\* consumer of this call on its items (stop: it returns false on one of
\* them), then the tests at the end of the loop
work2(w) ==
    /\ scan2.wpc[w] = "work"
    /\ \E fail \in BOOLEAN, stop \in BOOLEAN :
         LET resp == Scan(scan2.input[w], ReadWithStrongConsistency)
             hasCtx == scan2.rpc = "wait"
             err == IF fail THEN ErrRemote
                    ELSE IF stop /\ resp.Items # <<>> THEN errEarlyTermination
                    ELSE IF resp.LastEvaluatedKey = 0 THEN NoErr
                    ELSE IF hasCtx /\ scan2.ctxErr THEN errEarlyTermination
                    ELSE "continue"
         IN /\ scan2' =
                  IF err = "continue"
                  THEN [scan2 EXCEPT !.input[w].ExclusiveStartKey =
                                          resp.LastEvaluatedKey]
                  ELSE [scan2 EXCEPT
                          !.wpc[w] = "stopped",
                          !.wret[w] = err,
                          !.groupErr = IF hasCtx /\ err # NoErr /\ @ = NoErr
                                       THEN err ELSE @,
                          !.ctxErr = @ \/ (hasCtx /\ err # NoErr)]
            /\ ctxErr' = ctxAfterOther(err)
    /\ UNCHANGED <<ScanConcurrency, pageSize, segOf, rpc, rangeRet, wpc, input,
                   page, lek, wret, groupErr, hist>>
    /\ UNCHANGED <<storeVars, lifeVars, cfgVars, ttlVars, syncVars>>

\* the second call returns
RangeItemsReturn2 ==
    /\ scan2.rpc \in {"serial", "wait"}
    /\ \A w \in Workers : scan2.wpc[w] \in {"none", "stopped"}
    /\ scan2' = [scan2 EXCEPT
                    !.rpc = "returned",
                    !.rangeRet =
                        IF scan2.rpc = "serial" THEN scan2.wret[0]
                        ELSE IF scan2.groupErr = errEarlyTermination THEN NoErr
                        ELSE scan2.groupErr]
    /\ UNCHANGED <<storeVars, scanVars, lifeVars, cfgVars, ttlVars, syncVars>>

\* -------------------------------------------------------- table lifecycle
creatingPollDuration == 10

TableStatusCreating == "CREATING"
TableStatusUpdating == "UPDATING"
TableStatusDeleting == "DELETING"
TableStatusActive == "ACTIVE"

ErrCodeResourceNotFoundException == "ResourceNotFoundException"
ErrCodeResourceInUseException == "ResourceInUseException"
errDeleting == "cannot use table being deleted"
errNoTable == "table does not exist, and hash key name is empty"

\* key schemas a table can have; NoSchema while there is no table
NoSchema == [hash |-> "", range |-> ""]
Schemas == {[hash |-> h, range |-> r] : h \in {"id", "pk"}, r \in {"", "sk"}}

\* the configurations NewMap is called on
TableConfigs ==
    {[CreateTableIfAbsent |-> b, HashKeyName |-> h, RangeKeyName |-> r] :
        b \in BOOLEAN, h \in {"", "id"}, r \in {"", "sk"}}

NoMap == [HashKeyName |-> "", RangeKeyName |-> ""]

\* observations: the status and error of the last describe response ("none"
\* before the first), the key schema it carried, the number of CreateTable
\* requests sent, and the durations slept; of a DescribeTable call made on
\* the finished map, its setKeys argument ("none" before the call) and the
\* key names the map had when it was made
NoLife == [seen |-> "none", descErr |-> NoErr, schema |-> NoSchema,
           creates |-> 0, naps |-> {}, direct |-> "none", before |-> NoMap]

\* DescribeTableRequest.Send
DescribeTableResp(fail) ==
    IF fail THEN [status |-> "", schema |-> NoSchema, err |-> ErrRemote]
    ELSE IF tableStatus = ""
         THEN [status |-> "", schema |-> NoSchema,
               err |-> ErrCodeResourceNotFoundException]
    ELSE [status |-> tableStatus, schema |-> keySchema, err |-> NoErr]

\* CreateTableRequest.Send: the error code of the response
CreateTableErr(fail) ==
    IF fail THEN ErrRemote
    ELSE IF im.HashKeyName = "" THEN ErrValidation
    ELSE IF tableStatus # "" THEN ErrCodeResourceInUseException
    ELSE NoErr

\* the setKeys argument NewMap passes to DescribeTable
setKeys == ~tc.CreateTableIfAbsent

\* (mutant) a table being deleted is taken as usable
describeKind_deletingUsable(status) ==
    CASE status = TableStatusCreating -> "wait"
      [] OTHER -> "usable"

\* (mutant) a table being created is taken as usable
describeKind_noWait(status) ==
    CASE status = TableStatusDeleting -> "giveup"
      [] OTHER -> "usable"

\* DescribeTable, the switch on the status of a response
describeKind(status) ==
    CASE status = TableStatusCreating -> "wait"
      [] status = TableStatusDeleting -> "giveup"
      [] OTHER -> "usable"

\* (mutant) only the hash key name is taken from the description
discoverKeys_hashOnly(d, schema) ==
    [d EXCEPT !.HashKeyName = schema.hash]

\* DescribeTable, setKeys: the key names of the description
discoverKeys(d, schema) ==
    [d EXCEPT !.HashKeyName = schema.hash,
              !.RangeKeyName = IF schema.range # "" THEN schema.range ELSE @]

\* NewMap, its last statements: nil and the error, or the map
returnOf(err) ==
    IF err # NoErr THEN [map |-> FALSE, err |-> err]
    ELSE [map |-> TRUE, err |-> NoErr]

\* NewMap is called: the create path and the key discovery path describe the
\* table, a configuration with its hash key name returns the map at once
NewMap ==
    /\ npc = "idle"
    /\ im' = [HashKeyName |-> tc.HashKeyName, RangeKeyName |-> tc.RangeKeyName]
    /\ IF tc.CreateTableIfAbsent \/ tc.HashKeyName = ""
       THEN /\ npc' = "describe"
            /\ UNCHANGED newMapRet
       ELSE /\ npc' = "returned"
            /\ newMapRet' = returnOf(NoErr)
    /\ UNCHANGED <<tableStatus, keySchema, tc, life>>
    /\ UNCHANGED <<storeVars, scanVars, moreVars>>

\* NewMap after DescribeTable returned (status, err)
Described(status, err) ==
    IF tc.CreateTableIfAbsent
    THEN IF status = ""
         THEN /\ npc' = "create"
              /\ UNCHANGED newMapRet
         ELSE /\ npc' = "returned"
              /\ newMapRet' = returnOf(err)
    ELSE /\ npc' = "returned"
         /\ newMapRet' = IF status = "" THEN returnOf(errNoTable)
                         ELSE returnOf(err)

\* DescribeTable: one describe request and what the loop does with the answer
DescribeTable ==
    /\ npc = "describe"
    /\ \E fail \in BOOLEAN :
         LET resp == DescribeTableResp(fail)
         IN /\ life' = [life EXCEPT
                           !.seen = IF fail THEN "error" ELSE resp.status,
                           !.descErr = resp.err,
                           !.schema = resp.schema]
            /\ IF resp.err # NoErr
               THEN /\ Described("",
                          IF resp.err = ErrCodeResourceNotFoundException
                          THEN NoErr ELSE resp.err)
                    /\ im' = im
               ELSE CASE describeKind(resp.status) = "wait" ->
                            /\ npc' = "sleep"
                            /\ UNCHANGED <<im, newMapRet>>
                      [] describeKind(resp.status) = "giveup" ->
                            /\ Described(resp.status, errDeleting)
                            /\ im' = im
                      [] OTHER ->
                            /\ Described(resp.status, NoErr)
                            /\ im' = IF setKeys
                                     THEN discoverKeys(im, resp.schema)
                                     ELSE im
    /\ UNCHANGED <<tableStatus, keySchema, tc>>
    /\ UNCHANGED <<storeVars, scanVars, moreVars>>

\* DescribeTable: time.Sleep(creatingPollDuration) is over
Sleep ==
    /\ npc = "sleep"
    /\ npc' = "describe"
    /\ life' = [life EXCEPT !.naps = @ \cup {creatingPollDuration}]
    /\ UNCHANGED <<tableStatus, keySchema, tc, im, newMapRet>>
    /\ UNCHANGED <<storeVars, scanVars, moreVars>>

\* NewMap: CreateTable, and the return after it
CreateTable ==
    /\ npc = "create"
    /\ \E fail \in BOOLEAN :
         LET err == CreateTableErr(fail)
         IN /\ tableStatus' = IF err = NoErr THEN TableStatusCreating
                              ELSE tableStatus
            /\ keySchema' = IF err = NoErr
                            THEN [hash |-> im.HashKeyName,
                                  range |-> im.RangeKeyName]
                            ELSE keySchema
            /\ newMapRet' = returnOf(err)
    /\ npc' = "returned"
    /\ life' = [life EXCEPT !.creates = @ + 1]
    /\ UNCHANGED <<tc, im>>
    /\ UNCHANGED <<storeVars, scanVars, moreVars>>

\* the caller of NewMap calls DescribeTable(sk) on the map it was given
InvokeDescribeTable ==
    /\ npc = "returned" /\ newMapRet.map /\ life.direct = "none"
    /\ \E sk \in BOOLEAN :
         life' = [life EXCEPT !.direct = IF sk THEN "setKeys" ELSE "plain",
                              !.before = im]
    /\ npc' = "describe2"
    /\ UNCHANGED <<tableStatus, keySchema, tc, im, newMapRet>>
    /\ UNCHANGED <<storeVars, scanVars, moreVars>>

\* DescribeTable called on the map: one describe request and what the loop
\* does with the answer
DescribeTableDirect ==
    /\ npc = "describe2"
    /\ \E fail \in BOOLEAN :
         LET resp == DescribeTableResp(fail)
         IN /\ life' = [life EXCEPT
                           !.seen = IF fail THEN "error" ELSE resp.status,
                           !.descErr = resp.err,
                           !.schema = resp.schema]
            /\ IF resp.err # NoErr
               THEN /\ npc' = "returned2"
                    /\ im' = im
               ELSE CASE describeKind(resp.status) = "wait" ->
                            /\ npc' = "sleep2"
                            /\ im' = im
                      [] describeKind(resp.status) = "giveup" ->
                            /\ npc' = "returned2"
                            /\ im' = im
                      [] OTHER ->
                            /\ npc' = "returned2"
                            /\ im' = IF life.direct = "setKeys"
                                     THEN discoverKeys(im, resp.schema)
                                     ELSE im
    /\ UNCHANGED <<tableStatus, keySchema, tc, newMapRet>>
    /\ UNCHANGED <<storeVars, scanVars, moreVars>>

\* DescribeTable called on the map: time.Sleep(creatingPollDuration) is over
SleepDirect ==
    /\ npc = "sleep2"
    /\ npc' = "describe2"
    /\ life' = [life EXCEPT !.naps = @ \cup {creatingPollDuration}]
    /\ UNCHANGED <<tableStatus, keySchema, tc, im, newMapRet>>
    /\ UNCHANGED <<storeVars, scanVars, moreVars>>

\* the remote store and its other clients: a table is created, becomes
\* active, is updated, is deleted
TableChanges ==
    /\ \/ /\ tableStatus = ""
          /\ tableStatus' = TableStatusCreating
          /\ keySchema' \in Schemas
       \/ /\ tableStatus = TableStatusCreating
          /\ tableStatus' = TableStatusActive
          /\ UNCHANGED keySchema
       \/ /\ tableStatus = TableStatusActive
          /\ tableStatus' \in {TableStatusUpdating, TableStatusDeleting}
          /\ UNCHANGED keySchema
       \/ /\ tableStatus = TableStatusUpdating
          /\ tableStatus' = TableStatusActive
          /\ UNCHANGED keySchema
       \/ /\ tableStatus = TableStatusDeleting
          /\ tableStatus' = ""
          /\ keySchema' = NoSchema
    /\ UNCHANGED <<tc, im, npc, newMapRet, life>>
    /\ UNCHANGED <<storeVars, scanVars, moreVars>>


\* ------------------------------------------------- TableConfig.ToKeyItem
\* configurations of the key names: a hash key, with or without a range key
KeyConfigs == {[HashKeyName |-> HashKeyName, RangeKeyName |-> r] :
                  r \in {"", "sk"}}

\* items over the attributes id, sk, ver and name, any of which may be missing
AnyItems ==
    UNION {[attrs -> Keys] : attrs \in SUBSET {"id", "sk", "ver", "name"}}

\* a caller holds an item and asks the configuration for its key
InvokeToKeyItem(c) ==
    /\ pc[c] = "idle"
    /\ \E item \in AnyItems :
         call' = [call EXCEPT ![c] = [NoCall EXCEPT !.op = "ToKeyItem",
                                                    !.item = item]]
    /\ pc' = [pc EXCEPT ![c] = "call"]
    /\ ret' = [ret EXCEPT ![c] = NoRet]
    /\ UNCHANGED <<table, replica, ReadWithStrongConsistency,
                   TimeToLiveDuration, now, expect>>
    /\ UNCHANGED <<scanVars, lifeVars, moreVars>>

\* ToKeyItem reads the item it is given and returns a new one
ReturnToKeyItem(c) ==
    /\ pc[c] = "call" /\ call[c].op = "ToKeyItem"
    /\ Return(c, [NoRet EXCEPT !.ok = TRUE,
                               !.item = TableConfigToKeyItem(im, call[c].item),
                               !.from = "arg"])
    /\ UNCHANGED <<table, replica, ReadWithStrongConsistency,
                   TimeToLiveDuration, now, call, expect>>
    /\ UNCHANGED <<scanVars, lifeVars, moreVars>>


\* ------------------------------------------------------------ wall clock
\* time passes
Tick ==
    /\ now < MaxNow
    /\ now' = now + 1
    /\ UNCHANGED <<table, replica, ReadWithStrongConsistency,
                   TimeToLiveDuration, pc, call, ret, expect>>
    /\ UNCHANGED <<scanVars, lifeVars, moreVars>>


\* ------------------------------------------------------------ time to live
TimeToLiveStatusEnabling == "ENABLING"
TimeToLiveStatusEnabled == "ENABLED"
TimeToLiveStatusDisabling == "DISABLING"
TimeToLiveStatusDisabled == "DISABLED"

\* what DescribeTimeToLive can answer: no attribute name while disabled
TimeToLiveDescriptions ==
    {[TimeToLiveStatus |-> TimeToLiveStatusDisabled, AttributeName |-> ""]}
    \cup {[TimeToLiveStatus |-> s, AttributeName |-> n] :
            s \in {TimeToLiveStatusEnabling, TimeToLiveStatusEnabled,
                   TimeToLiveStatusDisabling},
            n \in {DefaultTimeToLiveName, "expires"}}

\* per call of EnableTTL: how many calls there were, the description this one
\* got and the name configured then, the UpdateTimeToLive requests this one
\* sent, whether a call had its update accepted (won), and whether one had
\* before this call began (prior)
NoTTLHist == [calls |-> 0, seen |-> "", seenName |-> "", cfgName |-> "",
              updates |-> 0, won |-> FALSE, prior |-> FALSE]

\* this map is not asked to enable ttl
TTLIdle ==
    /\ timeToLive = [TimeToLiveStatus |-> TimeToLiveStatusDisabled,
                     AttributeName |-> ""]
    /\ epc = "idle"
    /\ enableRet = NoErr
    /\ ttlHist = NoTTLHist

\* (mutant) an empty TimeToLiveName is not taken for the default name
mustUpdate_noDefault(status, name) ==
    CASE status = TimeToLiveStatusEnabled -> name # TimeToLiveName
      [] status = TimeToLiveStatusDisabled -> TRUE
      [] OTHER -> FALSE

\* EnableTTL's switch on the described status: does it call updateTTL(true)
mustUpdate(status, name) ==
    CASE status = TimeToLiveStatusEnabled ->
            ~(\/ name = TimeToLiveName
              \/ (name = DefaultTimeToLiveName /\ TimeToLiveName = ""))
      [] status = TimeToLiveStatusDisabled -> TRUE
      [] OTHER -> FALSE

\* UpdateTimeToLive(enabled = true) at the remote store: accepted only while
\* time to live is disabled
UpdateTimeToLiveErr(fail) ==
    IF fail THEN ErrRemote
    ELSE IF timeToLive.TimeToLiveStatus # TimeToLiveStatusDisabled
         THEN ErrValidation
    ELSE NoErr

\* EnableTTL is called: with no positive duration it returns at once
EnableTTL ==
    /\ epc \in {"idle", "returned"}
    /\ ttlHist.calls < MaxCalls
    /\ ttlHist' = [ttlHist EXCEPT !.calls = @ + 1, !.seen = "",
                                  !.seenName = "", !.cfgName = "",
                                  !.updates = 0, !.prior = ttlHist.won]
    /\ IF TimeToLiveDuration <= 0
       THEN epc' = "returned" /\ enableRet' = NoErr
       ELSE epc' = "describe" /\ enableRet' = enableRet
    /\ UNCHANGED <<timeToLive, cfgVars, syncVars, scan2>>
    /\ UNCHANGED <<storeVars, scanVars, lifeVars>>

\* descTTL is answered and EnableTTL switches on the status
descTTL ==
    /\ epc = "describe"
    /\ \E fail \in BOOLEAN :
         IF fail
         THEN /\ epc' = "returned" /\ enableRet' = ErrRemote
              /\ ttlHist' = ttlHist
         ELSE /\ ttlHist' =
                   [ttlHist EXCEPT
                      !.seen = timeToLive.TimeToLiveStatus,
                      !.seenName = timeToLive.AttributeName,
                      !.cfgName = ttlName]
              /\ IF mustUpdate(timeToLive.TimeToLiveStatus,
                               timeToLive.AttributeName)
                 THEN epc' = "update" /\ enableRet' = enableRet
                 ELSE epc' = "returned" /\ enableRet' = NoErr
    /\ UNCHANGED <<timeToLive, cfgVars, syncVars, scan2>>
    /\ UNCHANGED <<storeVars, scanVars, lifeVars>>

\* updateTTL(true): the default name is written into the map's configuration,
\* the request is sent, and EnableTTL returns its error
updateTTL ==
    /\ epc = "update"
    /\ TimeToLiveName' = ttlName
    /\ \E fail \in BOOLEAN :
         LET err == UpdateTimeToLiveErr(fail)
         IN /\ timeToLive' =
                   IF err = NoErr
                   THEN [TimeToLiveStatus |-> TimeToLiveStatusEnabling,
                         AttributeName |-> ttlName]
                   ELSE timeToLive
            /\ enableRet' = err
            /\ ttlHist' = [ttlHist EXCEPT !.updates = @ + 1,
                                          !.won = @ \/ err = NoErr]
    /\ epc' = "returned"
    /\ UNCHANGED <<ValueUnmarshaller, syncVars, scan2>>
    /\ UNCHANGED <<storeVars, scanVars, lifeVars>>

\* the remote store finishes a change of the setting, or another client
\* disables it
TimeToLiveChanges ==
    /\ \/ /\ timeToLive.TimeToLiveStatus = TimeToLiveStatusEnabling
          /\ timeToLive' = [timeToLive EXCEPT
                               !.TimeToLiveStatus = TimeToLiveStatusEnabled]
       \/ /\ timeToLive.TimeToLiveStatus = TimeToLiveStatusDisabling
          /\ timeToLive' = [TimeToLiveStatus |-> TimeToLiveStatusDisabled,
                            AttributeName |-> ""]
       \/ /\ timeToLive.TimeToLiveStatus = TimeToLiveStatusEnabled
          /\ timeToLive' = [timeToLive EXCEPT
                               !.TimeToLiveStatus = TimeToLiveStatusDisabling]
    /\ UNCHANGED <<epc, enableRet, ttlHist, cfgVars, syncVars, scan2>>
    /\ UNCHANGED <<storeVars, scanVars, lifeVars>>


\* ---------------------------------------------------------------- syncMap
\* the KeyFromValue the tests give NewSyncMap: the Id of a person
keyFromValue(val) ==
    IF val.kind = "struct" /\ HashKeyName \in DOMAIN val.item
    THEN [key |-> val.item[HashKeyName], err |-> NoErr]
    ELSE [key |-> 0, err |-> "not a person"]

\* nothing returned yet; absent records whether the key was in sm at the call
NoSyncRet == [done |-> FALSE, ok |-> FALSE, err |-> NoErr, value |-> NoVal,
              absent |-> FALSE]

\* no Map of NewSyncMap in use
SyncIdle ==
    /\ sm = [k \in Keys |-> NoVal]
    /\ sret = [c \in Callers |-> NoSyncRet]
    /\ faulted = FALSE

\* sync.Map.LoadOrStore: (actual, loaded) and the map it leaves
smLoadOrStore(key, value) ==
    IF sm[key] # NoVal
    THEN [actual |-> sm[key], loaded |-> TRUE, sm |-> sm]
    ELSE [actual |-> value, loaded |-> FALSE,
          sm |-> [sm EXCEPT ![key] = value]]

\* the method of syncMap for the call: (value, ok, err) and the map it leaves;
\* the err of each method's if statement is a variable of its own, so a failed
\* keyFromValue is returned as the named result, nil
syncMapCall(op, val) ==
    LET k == keyFromValue(val)
        none == [value |-> NoVal, ok |-> FALSE, err |-> namedErr(k.err),
                 sm |-> sm]
    IN IF k.err # NoErr THEN none
       ELSE CASE op = "Delete" ->
                   [none EXCEPT !.sm = [sm EXCEPT ![k.key] = NoVal]]
              [] op = "Load" ->
                   [none EXCEPT !.value = sm[k.key],
                                !.ok = sm[k.key] # NoVal]
              [] op = "Store" ->
                   [none EXCEPT !.sm = [sm EXCEPT ![k.key] = val]]
              [] op \in {"LoadOrStore", "LoadOrStoreItem"} ->
                   LET r == smLoadOrStore(k.key, val)
                   IN [none EXCEPT !.value = r.actual, !.ok = r.loaded,
                                   !.sm = r.sm]
              [] op = "StoreIfAbsent" ->
                   LET r == smLoadOrStore(k.key, val)
                   IN [none EXCEPT !.ok = r.loaded, !.sm = r.sm]

\* the caller makes the call the DynamoMap has answered on the other Map
syncMap(c) ==
    /\ pc[c] = "done" /\ ~sret[c].done
    /\ LET k == keyFromValue(call[c].val)
           r == syncMapCall(call[c].op, call[c].val)
       IN /\ sm' = r.sm
          /\ sret' = [sret EXCEPT ![c] =
                        [done |-> TRUE, ok |-> r.ok, err |-> r.err,
                         value |-> r.value,
                         absent |-> k.err = NoErr /\ sm[k.key] = NoVal]]
    /\ faulted' = (faulted \/ ret[c].fault)
    /\ UNCHANGED <<storeVars, scanVars, lifeVars, cfgVars, ttlVars, scan2>>

\* the caller has compared the two results and goes on to its next call
NextCall(c) ==
    /\ pc[c] = "done" /\ sret[c].done
    /\ pc' = [pc EXCEPT ![c] = "idle"]
    /\ call' = [call EXCEPT ![c] = NoCall]
    /\ ret' = [ret EXCEPT ![c] = NoRet]
    /\ sret' = [sret EXCEPT ![c] = NoSyncRet]
    /\ UNCHANGED <<table, replica, ReadWithStrongConsistency,
                   TimeToLiveDuration, now, expect>>
    /\ UNCHANGED <<sm, faulted>>
    /\ UNCHANGED <<scanVars, lifeVars, cfgVars, ttlVars, scan2>>

\* ---------------------------------------------------------- specifications
\* the map was built on an active table with the configured hash key
LifeIdle ==
    /\ tableStatus = TableStatusActive
    /\ keySchema = [hash |-> HashKeyName, range |-> RangeKeyName]
    /\ tc = [CreateTableIfAbsent |-> FALSE, HashKeyName |-> HashKeyName,
             RangeKeyName |-> RangeKeyName]
    /\ im = [HashKeyName |-> HashKeyName, RangeKeyName |-> RangeKeyName]
    /\ npc = "returned"
    /\ newMapRet = [map |-> TRUE, err |-> NoErr]
    /\ life = NoLife

\* no scan in progress
ScanIdle ==
    /\ ScanConcurrency = 0
    /\ pageSize = 1
    /\ segOf = <<>>
    /\ rpc = "idle"
    /\ rangeRet = NoErr
    /\ wpc = [w \in Workers |-> "none"]
    /\ input = [w \in Workers |-> NoInput]
    /\ page = [w \in Workers |-> <<>>]
    /\ lek = [w \in Workers |-> 0]
    /\ wret = [w \in Workers |-> NoErr]
    /\ groupErr = NoErr
    /\ ctxErr = FALSE
    /\ hist = NoHist

\* items a table can hold before any of the modelled calls
Stored(vers, names) ==
    {NoItem} \cup {MkItem(0, v, n) : v \in vers, n \in names}

WithKey(item, k) ==
    IF item = NoItem THEN NoItem ELSE [item EXCEPT !["id"] = k]

\* the configuration fields the scenarios leave at their zero values
CfgZero ==
    /\ TimeToLiveName = ""
    /\ ValueUnmarshaller = FALSE
    /\ TTLIdle
    /\ SyncIdle
    /\ Scan2Idle

\* the duration is either unset or the longest one of the bound: every
\* positive duration stamps the same attribute on a clock that stands still
InitCfg ==
    /\ ReadWithStrongConsistency \in BOOLEAN
    /\ TimeToLiveDuration \in {0, MaxTTL}
    /\ CfgZero
    /\ now = 0
    /\ pc = [c \in Callers |-> "idle"]
    /\ call = [c \in Callers |-> NoCall]
    /\ ret = [c \in Callers |-> NoRet]
    /\ ScanIdle
    /\ LifeIdle

\* an empty table and callers that have not called yet
InitSeq ==
    /\ table = [k \in Keys |-> NoItem]
    /\ replica = table
    /\ expect = table
    /\ InitCfg

SeqNames == {1}

\* one caller issuing any sequence of operations
NextSeq ==
    \/ Invoke("c1", Ops, Vers, SeqNames)
    \/ Again("c1")
    \/ LoadItem("c1")
    \/ StoreItem("c1")
    \/ DeleteItem("c1")
    \/ StoreItemIfAbsent("c1")
    \/ StoreItemIfVersion("c1")
    \/ loadOrStoreLoad("c1")
    \/ loadOrStoreStore("c1")
    \/ \E k \in Keys : Replicate(k)

SpecSeq == InitSeq /\ [][NextSeq]_vars

\* one caller of the typed surface and of the conditional puts of the
\* Itemable one, against a table that starts empty
TypedVers == {0, 1}
TypedNames == {1}

NextTyped ==
    \/ InvokeTyped("c1", TypedOps, TypedVers, TypedNames)
    \/ Invoke("c1", {"StoreItemIfAbsent", "StoreItemIfVersion"},
              TypedVers, TypedNames)
    \/ Again("c1")
    \/ Load("c1")
    \/ Store("c1")
    \/ Delete("c1")
    \/ StoreIfAbsent("c1")
    \/ LoadOrStore("c1")
    \/ StoreIfVersion("c1")
    \/ StoreItemIfAbsent("c1")
    \/ StoreItemIfVersion("c1")
    \/ loadOrStoreLoad("c1")
    \/ loadOrStoreStore("c1")
    \/ \E k \in Keys : Replicate(k)

SpecTyped == InitSeq /\ [][NextTyped]_vars

\* any table, and two callers that each make one call
ConcOps == {"StoreItemIfAbsent", "LoadOrStoreItem", "DeleteItem"}
ConcVers == {0}

InitConc ==
    /\ \E f \in [Keys -> Stored(ConcVers, {1, 2})] :
            table = [k \in Keys |-> WithKey(f[k], k)]
    /\ replica = table
    /\ expect = table
    /\ InitCfg

NextConc ==
    \/ \E c \in Callers : Invoke(c, ConcOps, ConcVers, {NameOf(c)})
    \/ \E c \in Callers : DeleteItem(c)
    \/ \E c \in Callers : StoreItemIfAbsent(c)
    \/ \E c \in Callers : loadOrStoreLoad(c)
    \/ \E c \in Callers : loadOrStoreStore(c)
    \/ \E k \in Keys : Replicate(k)

SpecConc == InitConc /\ [][NextConc]_vars

\* a table of n items that no caller modifies, and one RangeItems call
Segments == IF ScanConcurrency <= 1 THEN {0} ELSE 0 .. (ScanConcurrency - 1)

InitScan ==
    /\ \E n \in 0 .. MaxItem : table = [k \in 1 .. n |-> MkItem(k, 0, 1)]
    /\ replica = table
    /\ expect = table
    /\ ReadWithStrongConsistency \in BOOLEAN
    /\ TimeToLiveDuration = 0
    /\ CfgZero
    /\ now = 0
    /\ pc = [c \in Callers |-> "idle"]
    /\ call = [c \in Callers |-> NoCall]
    /\ ret = [c \in Callers |-> NoRet]
    /\ ScanConcurrency \in -1 .. MaxConc
    /\ pageSize \in 1 .. MaxPage
    /\ segOf \in [DOMAIN table -> Segments]
    /\ rpc = "idle"
    /\ rangeRet = NoErr
    /\ wpc = [w \in Workers |-> "none"]
    /\ input = [w \in Workers |-> NoInput]
    /\ page = [w \in Workers |-> <<>>]
    /\ lek = [w \in Workers |-> 0]
    /\ wret = [w \in Workers |-> NoErr]
    /\ groupErr = NoErr
    /\ ctxErr = FALSE
    /\ hist = NoHist
    /\ LifeIdle

NextScan ==
    \/ RangeItems
    \/ \E w \in Workers : Fetch(w)
    \/ \E w \in Workers : Deliver(w)
    \/ \E w \in Workers : Check(w)
    \/ RangeItemsReturn

SpecScan == InitScan /\ [][NextScan]_vars

\* NewMap called once on any configuration, the table in any state
InitTable ==
    /\ table = [k \in Keys |-> NoItem]
    /\ replica = table
    /\ expect = table
    /\ ReadWithStrongConsistency = FALSE
    /\ TimeToLiveDuration = 0
    /\ CfgZero
    /\ now = 0
    /\ pc = [c \in Callers |-> "idle"]
    /\ call = [c \in Callers |-> NoCall]
    /\ ret = [c \in Callers |-> NoRet]
    /\ ScanIdle
    /\ tableStatus \in {"", TableStatusCreating, TableStatusActive,
                        TableStatusUpdating, TableStatusDeleting}
    /\ IF tableStatus = "" THEN keySchema = NoSchema ELSE keySchema \in Schemas
    /\ tc \in TableConfigs
    /\ im = NoMap
    /\ npc = "idle"
    /\ newMapRet = [map |-> FALSE, err |-> NoErr]
    /\ life = NoLife

NextTable ==
    \/ NewMap
    \/ DescribeTable
    \/ Sleep
    \/ CreateTable
    \/ TableChanges

SpecTable == InitTable /\ [][NextTable]_vars

\* the goroutine that called NewMap keeps running: a describe request is
\* answered, a sleep ends
SpecTableFair ==
    /\ InitTable /\ [][NextTable]_vars
    /\ WF_vars(DescribeTable) /\ WF_vars(Sleep)


\* a caller projecting items to their keys under either configuration
InitKey ==
    /\ table = [k \in Keys |-> NoItem]
    /\ replica = table
    /\ expect = table
    /\ ReadWithStrongConsistency = FALSE
    /\ TimeToLiveDuration = 0
    /\ CfgZero
    /\ now = 0
    /\ pc = [c \in Callers |-> "idle"]
    /\ call = [c \in Callers |-> NoCall]
    /\ ret = [c \in Callers |-> NoRet]
    /\ ScanIdle
    /\ tableStatus = TableStatusActive
    /\ im \in KeyConfigs
    /\ keySchema = [hash |-> im.HashKeyName, range |-> im.RangeKeyName]
    /\ tc = [CreateTableIfAbsent |-> FALSE, HashKeyName |-> im.HashKeyName,
             RangeKeyName |-> im.RangeKeyName]
    /\ npc = "returned"
    /\ newMapRet = [map |-> TRUE, err |-> NoErr]
    /\ life = NoLife

NextKey ==
    \/ InvokeToKeyItem("c1")
    \/ ReturnToKeyItem("c1")
    \/ Again("c1")

SpecKey == InitKey /\ [][NextKey]_vars


\* c1 stores one value, on either surface, and c2 loads one while the clock
\* runs; TimeToLiveDuration may be negative, zero, a fraction of a second or
\* more, and the attribute has its default name or a configured one
InitTTL ==
    /\ table = [k \in Keys |-> NoItem]
    /\ replica = table
    /\ expect = table
    /\ ReadWithStrongConsistency \in BOOLEAN
    /\ TimeToLiveDuration \in -1 .. MaxDur
    /\ TimeToLiveName \in {"", "expires"}
    /\ ValueUnmarshaller = FALSE
    /\ TTLIdle
    /\ SyncIdle
    /\ Scan2Idle
    /\ now = 0
    /\ pc = [c \in Callers |-> "idle"]
    /\ call = [c \in Callers |-> NoCall]
    /\ ret = [c \in Callers |-> NoRet]
    /\ ScanIdle
    /\ LifeIdle

NextTTL ==
    \/ Invoke("c1", {"StoreItem"}, {0}, {1})
    \/ InvokeTyped("c1", {"Store"}, {0}, {1})
    \/ Invoke("c2", {"LoadItem"}, {0}, {1})
    \/ StoreItem("c1")
    \/ Store("c1")
    \/ LoadItem("c2")
    \/ Tick
    \/ \E k \in Keys : Replicate(k)

SpecTTL == InitTTL /\ [][NextTTL]_vars


\* the caller of the typed surface on a map with a ValueUnmarshaller
InitUnmarshal ==
    /\ table = [k \in Keys |-> NoItem]
    /\ replica = table
    /\ expect = table
    /\ ReadWithStrongConsistency \in BOOLEAN
    /\ TimeToLiveDuration \in 0 .. MaxTTL
    /\ TimeToLiveName = ""
    /\ ValueUnmarshaller = TRUE
    /\ TTLIdle
    /\ SyncIdle
    /\ Scan2Idle
    /\ now = 0
    /\ pc = [c \in Callers |-> "idle"]
    /\ call = [c \in Callers |-> NoCall]
    /\ ret = [c \in Callers |-> NoRet]
    /\ ScanIdle
    /\ LifeIdle

SpecUnmarshal == InitUnmarshal /\ [][NextTyped]_vars


\* c1 calls LoadOrStoreItem once while c2 keeps storing and deleting
NextLoop ==
    \/ Invoke("c1", {"LoadOrStoreItem"}, {0}, {1})
    \/ Invoke("c2", {"StoreItem", "DeleteItem"}, {0}, {2})
    \/ Again("c2")
    \/ StoreItem("c2")
    \/ DeleteItem("c2")
    \/ loadOrStoreLoad("c1")
    \/ loadOrStoreStore("c1")
    \/ \E k \in Keys : Replicate(k)

SpecLoop == InitSeq /\ [][NextLoop]_vars


\* EnableTTL called on a map whose table has any time to live setting
InitEnable ==
    /\ table = [k \in Keys |-> NoItem]
    /\ replica = table
    /\ expect = table
    /\ ReadWithStrongConsistency = FALSE
    /\ TimeToLiveDuration \in -1 .. MaxTTL
    /\ TimeToLiveName \in {"", DefaultTimeToLiveName, "expires"}
    /\ ValueUnmarshaller = FALSE
    /\ timeToLive \in TimeToLiveDescriptions
    /\ epc = "idle"
    /\ enableRet = NoErr
    /\ ttlHist = NoTTLHist
    /\ SyncIdle
    /\ Scan2Idle
    /\ now = 0
    /\ pc = [c \in Callers |-> "idle"]
    /\ call = [c \in Callers |-> NoCall]
    /\ ret = [c \in Callers |-> NoRet]
    /\ ScanIdle
    /\ LifeIdle

NextEnable ==
    \/ EnableTTL
    \/ descTTL
    \/ updateTTL
    \/ TimeToLiveChanges

SpecEnable == InitEnable /\ [][NextEnable]_vars


\* one caller making every call on a DynamoMap with strongly consistent
\* reads, no time to live and a ValueUnmarshaller, and then on the Map of
\* NewSyncMap, both empty at the start
InitSync ==
    /\ table = [k \in Keys |-> NoItem]
    /\ replica = table
    /\ expect = table
    /\ ReadWithStrongConsistency = TRUE
    /\ TimeToLiveDuration = 0
    /\ TimeToLiveName = ""
    /\ ValueUnmarshaller = TRUE
    /\ TTLIdle
    /\ SyncIdle
    /\ Scan2Idle
    /\ now = 0
    /\ pc = [c \in Callers |-> "idle"]
    /\ call = [c \in Callers |-> NoCall]
    /\ ret = [c \in Callers |-> NoRet]
    /\ ScanIdle
    /\ LifeIdle

SyncOps == {"Store", "Load", "Delete", "LoadOrStore", "StoreIfAbsent"}

NextSync ==
    \/ InvokeTyped("c1", SyncOps, TypedVers, TypedNames)
    \/ Load("c1")
    \/ Store("c1")
    \/ Delete("c1")
    \/ StoreIfAbsent("c1")
    \/ LoadOrStore("c1")
    \/ loadOrStoreLoad("c1")
    \/ loadOrStoreStore("c1")
    \/ syncMap("c1")
    \/ NextCall("c1")
    \/ \E k \in Keys : Replicate(k)

SpecSync == InitSync /\ [][NextSync]_vars


\* two callers, one StoreItemIfVersion each, on a table that may hold the keys
\* at any version
InitVersion ==
    /\ \E f \in [Keys -> Stored(Vers, {0})] :
            table = [k \in Keys |-> WithKey(f[k], k)]
    /\ replica = table
    /\ expect = table
    /\ InitCfg

NextVersion ==
    \/ \E c \in Callers : Invoke(c, {"StoreItemIfVersion"}, Vers, {NameOf(c)})
    \/ \E c \in Callers : StoreItemIfVersion(c)
    \/ \E k \in Keys : Replicate(k)

SpecVersion == InitVersion /\ [][NextVersion]_vars

\* one RangeItems call in which the consumer takes time: a worker's call of
\* the consumer and the consumer's return are separate steps
NextConsumer ==
    \/ RangeItems
    \/ \E w \in Workers : Fetch(w)
    \/ \E w \in Workers : consumerCall(w)
    \/ \E w \in Workers : consumerReturn(w)
    \/ \E w \in Workers : Check(w)
    \/ RangeItemsReturn

\* the table is read at the leader and its keys are dealt to the segments in
\* turn: neither matters to when a worker is inside the consumer
InitConsumer ==
    /\ InitScan
    /\ ReadWithStrongConsistency
    /\ \A k \in DOMAIN table : segOf[k] = k % Cardinality(Segments)

SpecConsumer == InitConsumer /\ [][NextConsumer]_vars

\* two callers, one LoadOrStoreItem each with its own payload, on a table that
\* starts empty and is read with strong consistency; nobody else writes, and
\* a caller that is inside loadOrStore keeps running
InitAgree ==
    /\ InitSeq
    /\ ReadWithStrongConsistency

NextAgree ==
    \/ \E c \in Callers : Invoke(c, {"LoadOrStoreItem"}, Vers, {NameOf(c)})
    \/ \E c \in Callers : loadOrStoreLoad(c)
    \/ \E c \in Callers : loadOrStoreStore(c)
    \/ \E k \in Keys : Replicate(k)

SpecAgree ==
    /\ InitAgree /\ [][NextAgree]_vars
    /\ \A c \in Callers :
          WF_vars(loadOrStoreLoad(c)) /\ WF_vars(loadOrStoreStore(c))

\* one caller making one call of any method of either surface that is not a
\* loop, on a table that may hold the keys at any version
OneShotOps == Ops \ {"LoadOrStoreItem"}
OneShotTypedOps == TypedOps \ {"LoadOrStore"}

NextOnce ==
    \/ Invoke("c1", OneShotOps, Vers, SeqNames)
    \/ InvokeTyped("c1", OneShotTypedOps, Vers, SeqNames)
    \/ LoadItem("c1")
    \/ StoreItem("c1")
    \/ DeleteItem("c1")
    \/ StoreItemIfAbsent("c1")
    \/ StoreItemIfVersion("c1")
    \/ Load("c1")
    \/ Store("c1")
    \/ Delete("c1")
    \/ StoreIfAbsent("c1")
    \/ StoreIfVersion("c1")
    \/ \E k \in Keys : Replicate(k)

SpecOnce == InitVersion /\ [][NextOnce]_vars

\* NewMap called once on any configuration, the table in any state, and one
\* DescribeTable call on the map it returned
NextDescribe ==
    \/ NextTable
    \/ InvokeDescribeTable
    \/ DescribeTableDirect
    \/ SleepDirect

SpecDescribe == InitTable /\ [][NextDescribe]_vars

\* the same with goroutines that keep running: a Scan request is answered,
\* the consumer returns, a worker that can take a step takes it, and
\* RangeItems goes on once Wait lets it
SpecConsumerFair ==
    /\ InitConsumer /\ [][NextConsumer]_vars
    /\ \A w \in Workers :
          /\ WF_vars(Fetch(w))
          /\ WF_vars(consumerCall(w))
          /\ WF_vars(consumerReturn(w))
          /\ WF_vars(Check(w))
    /\ WF_vars(RangeItemsReturn)

\* two RangeItems calls on one map, each with its own consumer, in any
\* interleaving
NextPair ==
    \/ NextScan
    \/ RangeItems2
    \/ \E w \in Workers : work2(w)
    \/ RangeItemsReturn2

\* the table holds at most the keys of Keys, either dealt to the segments in
\* turn or all in the first segment, and is read at the leader
InitPair ==
    /\ InitScan
    /\ ReadWithStrongConsistency
    /\ DOMAIN table \subseteq Keys
    /\ \/ \A k \in DOMAIN table : segOf[k] = k % Cardinality(Segments)
       \/ \A k \in DOMAIN table : segOf[k] = 0

SpecPair == InitPair /\ [][NextPair]_vars

\* ------------------------------------------------------------ properties
\* a caller's call of op returns in this step
Returns(c, op) ==
    /\ pc[c] \in {"call", "put"} /\ call[c].op = op /\ pc'[c] = "done"

\* the hash key of the item a caller passed
KeyOfCall(c) == call[c].item[HashKeyName]

\* what a Load of the key of item returns when the remote store answers
LoadNow(item) == load(item, FALSE)

\* the step left every key other than k as it was
OthersKept(k) == \A k2 \in Keys \ {k} : table'[k2] = table[k2]

\* C1 (as stated): a StoreItemIfAbsent(I) that the remote store evaluates
\* returns (true, nil) exactly when no item was stored under I's key, and then
\* a Load of that key returns I; when an item was stored under the key it
\* returns (false, nil) and the stored item stays as it was.
C1_AsStated ==
    [][\A c \in Callers :
        (Returns(c, "StoreItemIfAbsent") /\ ~ret'[c].fault) =>
            LET k == KeyOfCall(c)
                absent == table[k] = NoItem
            IN /\ (ret'[c].ok /\ ret'[c].err = NoErr) <=> absent
               /\ absent => /\ LoadNow(call[c].item)'.ok
                             /\ LoadNow(call[c].item)'.item = call'[c].item
               /\ ~absent => /\ ~ret'[c].ok /\ ret'[c].err = NoErr
                              /\ table' = table]_vars

\* C1 (amended): as C1, the Load returning I when reads are strongly
\* consistent (ReadWithStrongConsistency).
C1_StoreIfAbsent ==
    [][\A c \in Callers :
        (Returns(c, "StoreItemIfAbsent") /\ ~ret'[c].fault) =>
            LET k == KeyOfCall(c)
                absent == table[k] = NoItem
            IN /\ (ret'[c].ok /\ ret'[c].err = NoErr) <=> absent
               /\ absent => /\ table'[k] = call'[c].item
                             /\ OthersKept(k)
                             /\ ReadWithStrongConsistency =>
                                  /\ LoadNow(call[c].item)'.ok
                                  /\ LoadNow(call[c].item)'.item = call'[c].item
               /\ ~absent => /\ ~ret'[c].ok /\ ret'[c].err = NoErr
                              /\ table' = table]_vars

\* a StoreItemIfAbsent stored its item, and one found the key taken
C1_Witness ==
    /\ pc["c1"] = "done" /\ call["c1"].op = "StoreItemIfAbsent"
    /\ ret["c1"].ok /\ ret["c1"].err = NoErr
    /\ ReadWithStrongConsistency
    /\ table[KeyOfCall("c1")] = call["c1"].item

\* two StoreItemIfAbsent calls on one key, both invoked while the key was
\* absent and both evaluated by the remote store, have returned
Raced(p, q) ==
    /\ p # q
    /\ pc[p] = "done" /\ pc[q] = "done"
    /\ call[p].op = "StoreItemIfAbsent" /\ call[q].op = "StoreItemIfAbsent"
    /\ KeyOfCall(p) = KeyOfCall(q)
    /\ call[p].absent /\ call[q].absent
    /\ ~ret[p].fault /\ ~ret[q].fault

\* C2 (as stated): of two concurrent StoreItemIfAbsent calls on the same absent
\* key with different payloads exactly one returns true, both return a nil
\* error, and a Load of the key returns the payload of the call that
\* returned true.
C2_AsStated ==
    \A p, q \in Callers :
        (Raced(p, q) /\ ret[p].ok) =>
            /\ ~ret[q].ok
            /\ ret[p].err = NoErr /\ ret[q].err = NoErr
            /\ LoadNow(call[p].item).ok
            /\ LoadNow(call[p].item).item = call[p].item

\* C2 (amended): as C2, the Load returning the winner's payload when reads
\* are strongly consistent (ReadWithStrongConsistency).
C2_StoreIfAbsentRace ==
    \A p, q \in Callers :
        Raced(p, q) =>
            /\ ret[p].ok # ret[q].ok
            /\ ret[p].err = NoErr /\ ret[q].err = NoErr
            /\ ret[p].ok =>
                 /\ table[KeyOfCall(p)] = call[p].item
                 /\ call[p].item # call[q].item
                 /\ ReadWithStrongConsistency =>
                      /\ LoadNow(call[p].item).ok
                      /\ LoadNow(call[p].item).item = call[p].item

\* the race was run and c2 won it
C2_Witness ==
    /\ Raced("c1", "c2") /\ ret["c2"].ok /\ ~ret["c1"].ok
    /\ ReadWithStrongConsistency

\* C3: a StoreItemIfVersion(I, v) that the remote store evaluates returns
\* (true, nil) exactly when an item is stored under I's key whose version
\* attribute equals v; then the stored item becomes I, version attribute as
\* the caller supplied it; otherwise it returns (false, nil) and the table is
\* as it was.
C3_StoreIfVersion ==
    [][\A c \in Callers :
        (Returns(c, "StoreItemIfVersion") /\ ~ret'[c].fault) =>
            LET k == KeyOfCall(c)
                old == table[k]
                match == /\ old # NoItem
                         /\ VersionName \in DOMAIN old
                         /\ old[VersionName] = call[c].version
            IN /\ (ret'[c].ok /\ ret'[c].err = NoErr) <=> match
               /\ match => /\ table'[k] = call'[c].item
                            /\ table'[k][VersionName] = call[c].item[VersionName]
                            /\ \A a \in DOMAIN call[c].item :
                                   table'[k][a] = call[c].item[a]
                            /\ OthersKept(k)
               /\ ~match => /\ ~ret'[c].ok /\ ret'[c].err = NoErr
                             /\ table' = table]_vars

\* a StoreItemIfVersion replaced an item, writing a version other than the
\* one it expected
C3_Witness ==
    /\ pc["c1"] = "done" /\ call["c1"].op = "StoreItemIfVersion"
    /\ ret["c1"].ok /\ ret["c1"].err = NoErr
    /\ call["c1"].item[VersionName] # call["c1"].version
    /\ table[KeyOfCall("c1")] = call["c1"].item

\* C4 (as stated, its closing sentence): LoadOrStoreItem(I) never returns
\* loaded=true together with the item it was given; loaded=true comes with
\* an item read from the store.
C4_AsStated ==
    \A c \in Callers :
        (pc[c] = "done" /\ call[c].op = "LoadOrStoreItem" /\ ret[c].ok) =>
            /\ ret[c].from = "resp"
            /\ ret[c].item # NoItem

\* C5: with strongly consistent reads and no TTL, a LoadItem that the remote
\* store answers returns the item of the last successful put on the key, and
\* found=false when the key was never stored or was last deleted; a DeleteItem
\* of an absent key returns nil and changes no key.
C5_SequentialMap ==
    [][(ReadWithStrongConsistency /\ TimeToLiveDuration = 0) =>
        /\ (Returns("c1", "LoadItem") /\ ~ret'["c1"].fault) =>
              LET k == KeyOfCall("c1")
              IN /\ ret'["c1"].err = NoErr
                 /\ ret'["c1"].ok <=> expect[k] # NoItem
                 /\ ret'["c1"].item = expect[k]
        /\ (Returns("c1", "DeleteItem") /\ ~ret'["c1"].fault) =>
              LET k == KeyOfCall("c1")
              IN /\ ret'["c1"].err = NoErr
                 /\ table'[k] = NoItem
                 /\ OthersKept(k)
                 /\ table[k] = NoItem => table' = table]_vars

\* a stored item was loaded back while another key was held too
C5_Witness ==
    /\ ReadWithStrongConsistency /\ TimeToLiveDuration = 0
    /\ pc["c1"] = "done" /\ call["c1"].op = "LoadItem"
    /\ ret["c1"].ok /\ ret["c1"].item = expect[KeyOfCall("c1")]
    /\ \E k \in Keys \ {KeyOfCall("c1")} : expect[k] # NoItem

\* the fan-out degree of the scan
FanOut == IF ScanConcurrency <= 1 THEN 1 ELSE ScanConcurrency

\* C6: when no consumer call returns false and no fetch fails, RangeItems
\* returns nil having given the consumer every stored item exactly once, for
\* every ScanConcurrency and page size.
C6_ScanComplete ==
    (rpc = "returned" /\ ~hist.sawFalse /\ ~hist.fault) =>
        /\ rangeRet = NoErr
        /\ \A k \in DOMAIN table :
              hist.count[k] = IF table[k] # NoItem THEN 1 ELSE 0

\* a parallel scan of several pages per segment has completed
C6_Witness ==
    /\ rpc = "returned" /\ ~hist.sawFalse /\ ~hist.fault
    /\ ScanConcurrency = 2 /\ pageSize = 1
    /\ Cardinality(DOMAIN table) >= 3
    /\ \A w \in 0 .. 1 : hist.got[w] # {}

\* C7 (as stated): RangeItems never returns the early-termination sentinel,
\* in serial mode as in parallel mode.
C7_AsStated ==
    rpc = "returned" => rangeRet # errEarlyTermination

\* C8: a parallel RangeItems returns nil when the first worker to finish with
\* an error stopped because its consumer returned false, returns that
\* worker's fetch error when it stopped on one, whatever later workers
\* return, and returns nil when every worker came to the end of its segment.
C8_FirstOutcome ==
    (rpc = "returned" /\ ScanConcurrency > 1) =>
        /\ hist.first.why \in {"none", "consumer", "fetch"}
        /\ hist.first.why = "none" =>
              /\ rangeRet = NoErr
              /\ \A w \in Workers : w < ScanConcurrency => wret[w] = NoErr
        /\ hist.first.why = "consumer" => rangeRet = NoErr
        /\ hist.first.why = "fetch" => rangeRet = hist.first.err

\* a fetch error came first and an early stop of another worker's consumer
\* came after it
C8_Witness ==
    /\ rpc = "returned" /\ ScanConcurrency > 1
    /\ hist.first.why = "fetch" /\ rangeRet = ErrRemote
    /\ \E w \in Workers : hist.said[w] /\ wret[w] = errEarlyTermination

\* C9 (as stated): when the consumer has returned false, RangeItems returns
\* nil and the consumer was given at most ScanConcurrency further items, none
\* in serial mode.
C9_AsStated ==
    (rpc = "returned" /\ hist.sawFalse /\ ~hist.fault) =>
        /\ rangeRet = NoErr
        /\ hist.after <= IF ScanConcurrency <= 1 THEN 0 ELSE ScanConcurrency

\* C10: a worker of a parallel scan whose consumer calls all returned true
\* has, when it stops, given the consumer every item of every page it
\* fetched.
C10_WholePages ==
    \A w \in Workers :
        (rpc \in {"wait", "returned"} /\ wpc[w] = "stopped" /\ ~hist.said[w]) =>
            /\ page[w] = <<>>
            /\ hist.got[w] = hist.fetched[w]

\* a worker stopped on a peer's cancellation after a page of several items
C10_Witness ==
    \E w \in Workers :
        /\ rpc \in {"wait", "returned"} /\ wpc[w] = "stopped" /\ ~hist.said[w]
        /\ wret[w] = errEarlyTermination
        /\ Cardinality(hist.got[w]) >= 2 /\ pageSize >= 2

\* C11: in a parallel scan a worker sends at most one Scan request after the
\* shared context was cancelled (by a consumer returning false or by a fetch
\* error of any worker), and then stops.
C11_OneMorePage ==
    \A w \in Workers :
        /\ hist.late[w] <= 1
        /\ (rpc = "returned" /\ hist.late[w] = 1 /\ wret[w] = NoErr) =>
              lek[w] = 0

\* a worker fetched one more page after the cancellation, with more of its
\* segment left, and stopped on the cancellation
C11_Witness ==
    \E w \in Workers :
        /\ rpc = "returned" /\ hist.late[w] = 1
        /\ wret[w] = errEarlyTermination /\ ~hist.said[w]
        /\ lek[w] # 0

\* a caller's call ends in this step, returning or panicking
Ends(c) == pc[c] \in {"call", "put"} /\ pc'[c] \in {"done", "panic"}

CondOps == {"StoreItemIfAbsent", "StoreIfAbsent", "StoreItemIfVersion",
            "StoreIfVersion"}

\* the condition a conditional put sends
CondOf(c) ==
    IF call[c].op \in {"StoreItemIfAbsent", "StoreIfAbsent"}
    THEN AttributeNotExists(HashKeyName)
    ELSE NameEqual(VersionName, call[c].version)

\* C12 (as stated): a conditional put of either surface (StoreItemIfAbsent,
\* StoreIfAbsent, StoreItemIfVersion, StoreIfVersion) that sent its request
\* sent it once; when the response is conditional-check-failed the call
\* returns false with no error and does not panic; on any other failure of
\* the request it returns false with that error.
C12_AsStated ==
    [][\A c \in Callers :
        (Ends(c) /\ call[c].op \in CondOps /\ call'[c].sent > call[c].sent) =>
            LET resp == PutItemErr(call'[c].item, CondOf(c), ret'[c].fault)
            IN /\ call'[c].sent = 1
               /\ resp = ErrCodeConditionalCheckFailedException =>
                    /\ pc'[c] = "done"
                    /\ ~ret'[c].ok /\ ret'[c].err = NoErr
               /\ resp \notin {NoErr, ErrCodeConditionalCheckFailedException} =>
                    /\ pc'[c] = "done"
                    /\ ~ret'[c].ok /\ ret'[c].err = resp]_vars

\* C13 (as stated): Store, Delete, StoreIfAbsent and LoadOrStore return a
\* non-nil error when their argument cannot be converted to an Item, and a
\* Store or Delete that returned nil has sent its request.
C13_AsStated ==
    \A c \in Callers :
        (/\ pc[c] = "done"
         /\ call[c].op \in {"Store", "Delete", "StoreIfAbsent", "LoadOrStore"}) =>
            /\ MarshalItem(call[c].val).err # NoErr => ret[c].err # NoErr
            /\ (call[c].op \in {"Store", "Delete"} /\ ret[c].err = NoErr) =>
                  call[c].sent >= 1

\* statuses of a table that can be used
Usable == {TableStatusActive, TableStatusUpdating}

\* DescribeTable gets the answer to a describe request in this step
Answered == npc = "describe" /\ npc' # "describe"

\* C14 (as stated): with CreateTableIfAbsent=false, whether or not HashKeyName
\* is configured, NewMap returns a map only for a table it observed usable,
\* and returns nil with an error otherwise.
C14_AsStated ==
    (npc = "returned" /\ ~tc.CreateTableIfAbsent) =>
        /\ newMapRet.map => life.seen \in Usable
        /\ ~newMapRet.map => newMapRet.err # NoErr

\* C15 (as stated): with CreateTableIfAbsent=true a CreateTable request is
\* sent only after a describe call that succeeded and reported the table
\* absent; when the describe call failed with another error NewMap returns
\* that error, having sent no CreateTable request.
C15_AsStated ==
    tc.CreateTableIfAbsent =>
        /\ life.creates > 0 =>
              /\ life.seen = ""
              /\ life.descErr = ErrCodeResourceNotFoundException
        /\ (npc = "returned" /\ life.seen = "error") =>
              /\ ~newMapRet.map /\ newMapRet.err = life.descErr
              /\ life.creates = 0

\* C16 (as stated): when the table was observed absent and CreateTableIfAbsent
\* is set, NewMap returns a map only after it has observed the table Active.
C16_AsStated ==
    (/\ npc = "returned" /\ tc.CreateTableIfAbsent
     /\ life.creates > 0 /\ life.descErr = ErrCodeResourceNotFoundException
     /\ newMapRet.map) =>
        life.seen = TableStatusActive

C18_DeletingIsFinal ==
    [][(Answered /\ life'.seen = TableStatusDeleting) =>
          /\ npc' = "returned"
          /\ ~newMapRet'.map /\ newMapRet'.err = errDeleting
          /\ im' = im
          /\ life'.creates = 0 /\ life'.naps = life.naps
          /\ tableStatus' = tableStatus]_vars

\* NewMap gave up on a table that was deleted while it waited for it
C18_Witness ==
    /\ npc = "returned" /\ life.seen = TableStatusDeleting
    /\ ~newMapRet.map /\ newMapRet.err = errDeleting
    /\ tc.CreateTableIfAbsent /\ life.naps # {}

\* C19: DescribeTable does not return on a response with status Creating: it
\* sleeps creatingPollDuration and describes again; it returns on the first
\* response that is not-found, an error or any other status; so it returns
\* if the table eventually stays out of Creating.
C19_DescribePolls ==
    /\ [][/\ (Answered /\ life'.seen = TableStatusCreating) => npc' = "sleep"
          /\ (Answered /\ life'.seen # TableStatusCreating) =>
                npc' \in {"create", "returned"}
          /\ life'.naps \subseteq {creatingPollDuration}]_vars
    /\ (<>[](tableStatus # TableStatusCreating)) =>
          <>[](npc \notin {"describe", "sleep"})

\* DescribeTable slept on a table being created and returned once it was
\* active
C19_Witness ==
    /\ npc = "returned" /\ life.naps = {creatingPollDuration}
    /\ life.seen = TableStatusActive /\ newMapRet.map

\* C20 (as stated): a Load, Delete or put given an item without the hash key
\* attribute returns an error without having sent a request.
C20_AsStated ==
    \A c \in Callers :
        (/\ pc[c] \in {"done", "panic"}
         /\ call[c].val.kind = "Item"
         /\ HashKeyName \notin DOMAIN call[c].val.item) =>
            /\ ret[c].err # NoErr
            /\ call[c].sent = 0

\* the key attribute names of the map
KeyNames == {im.HashKeyName} \cup
            (IF im.RangeKeyName # "" THEN {im.RangeKeyName} ELSE {})

\* C21: for every item that has the configured key attributes, ToKeyItem
\* returns an item with exactly those attributes and the item's values for
\* them, applying ToKeyItem to the result gives the result again, and the item
\* passed in is left as it was.
C21_KeyProjection ==
    [][\A c \in Callers :
         (Returns(c, "ToKeyItem") /\ KeyNames \subseteq DOMAIN call[c].item) =>
            /\ DOMAIN ret'[c].item = KeyNames
            /\ \A a \in KeyNames : ret'[c].item[a] = call[c].item[a]
            /\ TableConfigToKeyItem(im, ret'[c].item) = ret'[c].item
            /\ call'[c].item = call[c].item]_vars

\* an item with both keys and two more attributes was projected under a
\* configuration with a range key
C21_Witness ==
    /\ pc["c1"] = "done" /\ call["c1"].op = "ToKeyItem"
    /\ im.RangeKeyName = "sk"
    /\ DOMAIN call["c1"].item = {"id", "sk", "ver", "name"}
    /\ DOMAIN ret["c1"].item = {"id", "sk"}

\* the item a caller gave to a put, before store touched it
Given(c) == IF call[c].op = "Store" THEN call[c].val.item ELSE call[c].item

\* c stored its value and o then loaded it
StoredThenLoaded(c, o) ==
    /\ pc[c] = "done" /\ call[c].op \in {"StoreItem", "Store"}
    /\ call[c].sent > 0 /\ ret[c].err = NoErr
    /\ pc[o] = "done" /\ call[o].op = "LoadItem" /\ ret[o].ok

\* the time left, in ticks, on the item o loaded, when o loaded it
Remaining(o) == ret[o].item[ttlName] * TicksPerSecond - call[o].at

\* C22 (as stated): with TimeToLiveDuration D > 0 a stored item carries the
\* ttl attribute equal to the time of the store plus D in epoch seconds, and
\* when it is loaded at t' after being stored at t the time left on it lies
\* within [D - (t' - t), D]; with D <= 0 nothing is added to the item.
C22_AsStated ==
    StoredThenLoaded("c1", "c2") =>
        IF TimeToLiveDuration > 0
        THEN /\ ttlName \in DOMAIN ret["c2"].item
             /\ ret["c2"].item[ttlName] =
                    Unix(call["c1"].at + TimeToLiveDuration)
             /\ Remaining("c2") >=
                    TimeToLiveDuration - (call["c2"].at - call["c1"].at)
             /\ Remaining("c2") <= TimeToLiveDuration
        ELSE ttlName \notin DOMAIN ret["c2"].item

\* C22: with TimeToLiveDuration D > 0 every successful put writes the item it
\* was given plus the ttl attribute, named TimeToLiveName or "TTL", whose value
\* is the time of the put plus D truncated to whole epoch seconds; an item
\* loaded at t' after being stored at t has at most D - (t' - t) left, hence at
\* most D, and more than one second less than that is never missing; with
\* D <= 0 the item is written as given.
C22_TTLStamp ==
    /\ [][\A c \in Callers :
            (/\ pc[c] = "call" /\ call[c].op \in {"StoreItem", "Store"}
             /\ call'[c].sent > call[c].sent /\ ret'[c].err = NoErr) =>
                LET item == Given(c)
                    put == table'[item[HashKeyName]]
                IN IF TimeToLiveDuration > 0
                   THEN /\ DOMAIN put = DOMAIN item \cup {ttlName}
                        /\ \A a \in DOMAIN item \ {ttlName} : put[a] = item[a]
                        /\ put[ttlName] = Unix(now + TimeToLiveDuration)
                        /\ ttlName = IF TimeToLiveName = "" THEN "TTL"
                                     ELSE TimeToLiveName
                   ELSE put = item]_vars
    /\ [](StoredThenLoaded("c1", "c2") =>
            IF TimeToLiveDuration > 0
            THEN LET left == TimeToLiveDuration
                                - (call["c2"].at - call["c1"].at)
                 IN /\ Remaining("c2") <= left
                    /\ left <= TimeToLiveDuration
                    /\ Remaining("c2") > left - TicksPerSecond
            ELSE ret["c2"].item = Given("c1"))

\* an item stored under a configured attribute name with a duration that is
\* not a whole number of seconds was loaded later, with less left on it than
\* the duration minus the time that passed
C22_Witness ==
    /\ StoredThenLoaded("c1", "c2")
    /\ TimeToLiveDuration > TicksPerSecond
    /\ TimeToLiveName = "expires"
    /\ call["c2"].at > call["c1"].at
    /\ Remaining("c2") <
           TimeToLiveDuration - (call["c2"].at - call["c1"].at)

\* C23 (as stated): with a ValueUnmarshaller configured, the value Load
\* returns for a key that was found, and the value LoadOrStore returns, is
\* never a raw Item: it is the unmarshalled stored item when the value was
\* loaded and the caller's own value when it was stored.
C23_AsStated ==
    \A c \in Callers :
        (/\ ValueUnmarshaller /\ pc[c] = "done" /\ ret[c].err = NoErr
         /\ call[c].val # NoVal
         /\ call[c].op \in {"Load", "LoadOrStoreItem"}
         /\ call[c].sent > 0
         /\ ret[c].ok \/ call[c].op = "LoadOrStoreItem") =>
            /\ DOMAIN ret[c].item = {"kind", "item"}
            /\ ret[c].from = "resp" =>
                  /\ ret[c].item.kind = "struct"
                  /\ ret[c].item.item[HashKeyName] =
                         call[c].val.item[HashKeyName]
            /\ ret[c].from = "arg" => ret[c].item = call[c].val

\* C24: an iteration of loadOrStore is one load, followed by one conditional
\* put only if the load found nothing and did not fail; the call returns from
\* the load that found an item or failed and from the put that stored or
\* failed, and goes round again only when the put failed its condition, the
\* key being there by then.  With strongly consistent reads and nobody
\* deleting the key during the call, the call has returned once it has sent
\* three requests (load, put, load); nothing else bounds the iterations.
C24_LoadOrStoreLoop ==
    /\ [][\A c \in Callers : call[c].op = "LoadOrStoreItem" =>
            LET key == ToKeyItem(call[c].item)
            IN /\ (pc[c] # pc'[c]) =>
                     /\ call'[c].sent = More(call[c].sent)
                     /\ <<pc[c], pc'[c]>> \in
                            {<<"call", "put">>, <<"call", "done">>,
                             <<"put", "call">>, <<"put", "done">>}
               /\ (pc[c] = "call" /\ pc'[c] = "put") =>
                     /\ GetItem(key, ReadWithStrongConsistency) = NoItem
                     /\ table' = table
               /\ (pc[c] = "call" /\ pc'[c] = "done") =>
                     /\ ret'[c].ok \/ ret'[c].err # NoErr
                     /\ ret'[c].from = "resp" /\ table' = table
               /\ (pc[c] = "put" /\ pc'[c] = "call") =>
                     /\ table[key[HashKeyName]] # NoItem
                     /\ table' = table
               /\ (pc[c] = "put" /\ pc'[c] = "done") =>
                     /\ ret'[c].from = "arg"
                     /\ (ret'[c].err = NoErr) =
                            (table'[key[HashKeyName]] = call'[c].item
                             /\ table[key[HashKeyName]] = NoItem)]_vars
    /\ [](\A c \in Callers :
            (/\ call[c].op = "LoadOrStoreItem" /\ ReadWithStrongConsistency
             /\ ~call[c].deleted /\ call[c].sent >= 3) => pc[c] = "done")

\* with strongly consistent reads, c1 is starting its third iteration at
\* least: the key was stored and deleted again under it
C24_Witness ==
    /\ call["c1"].op = "LoadOrStoreItem" /\ pc["c1"] = "call"
    /\ ReadWithStrongConsistency /\ call["c1"].deleted
    /\ call["c1"].sent = MaxSent

\* C25: a call of EnableTTL sends one UpdateTimeToLive request if
\* TimeToLiveDuration > 0 and the description it got says Disabled, or Enabled
\* under a name other than the configured one ("TTL" when none is configured),
\* and sends none otherwise; so a call that finds time to live enabled after an
\* earlier call's update was accepted sends none.
C25_EnableTTL ==
    (epc = "returned" /\ ttlHist.calls > 0) =>
        /\ ttlHist.updates \in {0, 1}
        /\ (ttlHist.updates = 1) =
              (/\ TimeToLiveDuration > 0
               /\ \/ ttlHist.seen = TimeToLiveStatusDisabled
                  \/ /\ ttlHist.seen = TimeToLiveStatusEnabled
                     /\ ttlHist.seenName # ttlHist.cfgName)
        /\ (ttlHist.prior /\ ttlHist.seen = TimeToLiveStatusEnabled) =>
              ttlHist.updates = 0

\* the second call found time to live enabled by the first, which had
\* written the default name into an empty TimeToLiveName, and sent no update
C25_Witness ==
    /\ epc = "returned" /\ ttlHist.calls = 2 /\ ttlHist.prior
    /\ ttlHist.seen = TimeToLiveStatusEnabled
    /\ ttlHist.seenName = DefaultTimeToLiveName
    /\ ttlHist.updates = 0 /\ enableRet = NoErr

\* C26 (as stated): StoreIfAbsent(v) on the Map of NewSyncMap returns
\* stored = true exactly when no value with v's key was present, and then v is
\* stored; when one was present it returns false and the value stays.
C26_AsStated ==
    \A c \in Callers :
        (/\ sret[c].done /\ call[c].op = "StoreIfAbsent"
         /\ keyFromValue(call[c].val).err = NoErr) =>
            /\ sret[c].ok = sret[c].absent
            /\ sret[c].absent =>
                  sm[keyFromValue(call[c].val).key] = call[c].val

\* C27 (as stated): when no request has failed, every Store, Load, Delete and
\* LoadOrStore of a value with a key returns the same error, the same found or
\* loaded flag and an equal value from the DynamoMap and from the Map of
\* NewSyncMap.
C27_AsStated ==
    \A c \in Callers :
        (/\ pc[c] = "done" /\ sret[c].done /\ ~faulted /\ ~ret[c].fault
         /\ call[c].val.kind = "struct"
         /\ call[c].op \in {"Store", "Load", "Delete", "LoadOrStoreItem"}) =>
            /\ ret[c].err = sret[c].err
            /\ call[c].op \in {"Load", "LoadOrStoreItem"} =>
                  /\ ret[c].ok = sret[c].ok
                  /\ (ret[c].ok \/ call[c].op = "LoadOrStoreItem") =>
                        ret[c].item = sret[c].value

\* both callers called StoreItemIfVersion on one key with one expected
\* version, each with an item at another version, and both have returned
SameVersionRace ==
    /\ \A c \in Callers :
          /\ pc[c] = "done" /\ call[c].op = "StoreItemIfVersion"
          /\ call[c].item[VersionName] # call[c].version
    /\ KeyOfCall("c1") = KeyOfCall("c2")
    /\ call["c1"].version = call["c2"].version

\* C28: when two callers call StoreItemIfVersion on the same key with the same
\* expected version, each with an item whose version differs from it, at most
\* one of the calls returns ok = true in any interleaving, and the table then
\* holds the item of the call that did.
C28_VersionRace ==
    SameVersionRace =>
        /\ ~(ret["c1"].ok /\ ret["c2"].ok)
        /\ \A c \in Callers :
              ret[c].ok => table[KeyOfCall(c)] = call[c].item

\* c1 won the race, c2 was answered that the condition failed
C28_Witness ==
    /\ SameVersionRace
    /\ ret["c1"].ok /\ ~ret["c2"].ok
    /\ ret["c2"].err = NoErr /\ ~ret["c2"].fault
    /\ table[KeyOfCall("c1")] = call["c1"].item

\* C29 (as stated): in a parallel scan a worker that comes to fetch a page,
\* its first one included, after the shared context was cancelled sends no
\* Scan request.
C29_AsStated ==
    \A w \in Workers : hist.late[w] = 0

\* C30: with ScanConcurrency = N > 1 RangeItems starts the workers 0..N-1 and
\* no other, worker i scans with Segment = i and TotalSegments = N for as long
\* as it runs, and a step that moves one worker's ExclusiveStartKey is that
\* worker's own and leaves its segment and every other worker's input alone;
\* with ScanConcurrency <= 1, zero and negative included, one worker scans
\* with neither Segment nor TotalSegments set.
C30_Segments ==
    /\ [](rpc # "idle" =>
            IF ScanConcurrency > 1
            THEN \A w \in Workers :
                    IF w < ScanConcurrency
                    THEN /\ wpc[w] # "none"
                         /\ input[w].Segment = w
                         /\ input[w].TotalSegments = ScanConcurrency
                    ELSE wpc[w] = "none"
            ELSE /\ \A w \in Workers : (wpc[w] # "none") = (w = 0)
                 /\ input[0].Segment = NoInput.Segment
                 /\ input[0].TotalSegments = NoInput.TotalSegments)
    /\ [][\A w \in Workers :
            (rpc # "idle" /\ input'[w] # input[w]) =>
                /\ wpc[w] = "check"
                /\ input'[w].Segment = input[w].Segment
                /\ input'[w].TotalSegments = input[w].TotalSegments
                /\ \A o \in Workers \ {w} : input'[o] = input[o]]_vars

\* two workers on their own segments, one of them a page further than the
\* other
C30_Witness ==
    /\ rpc = "wait" /\ ScanConcurrency = 2
    /\ input[0].Segment = 0 /\ input[1].Segment = 1
    /\ input[0].ExclusiveStartKey # 0 /\ input[1].ExclusiveStartKey = 0
    /\ wpc[1] = "fetch"

\* C31: RangeItems returns only once every worker it started has returned,
\* whatever the outcome, and after it has returned no worker sends a Scan
\* request, runs the consumer or moves in any other way.
C31_ReturnsLast ==
    [][/\ rpc' = "returned" =>
            \A w \in Workers : wpc'[w] \in {"none", "stopped"}
       /\ rpc = "returned" =>
            /\ wpc' = wpc /\ page' = page /\ input' = input
            /\ hist' = hist /\ rangeRet' = rangeRet]_vars

\* a parallel scan has returned in which one worker's fetch failed and
\* another worker's consumer returned false
C31_Witness ==
    /\ rpc = "returned" /\ ScanConcurrency >= 2
    /\ hist.fault /\ hist.sawFalse
    /\ \A w \in Segments : wpc[w] = "stopped"

\* the consumer calls in progress
InProgress == {w \in Workers : hist.busy[w] > 0}

\* C32: a worker has at most one consumer call in progress, calls of
\* different workers overlap freely, so at most as many calls are in
\* progress as the scan has workers, and the calls in progress are those of
\* the workers that are inside the consumer.
C32_ConsumerOverlap ==
    /\ \A w \in Workers : hist.busy[w] <= 1
    /\ InProgress = {w \in Workers : wpc[w] = "consume"}
    /\ Cardinality(InProgress) <= FanOut
    /\ InProgress \subseteq Segments

\* every worker of a parallel scan is inside the consumer at the same time
C32_Witness ==
    /\ ScanConcurrency >= 2
    /\ Cardinality(InProgress) = ScanConcurrency

\* both callers have returned from LoadOrStoreItem on the same key
BothReturned ==
    /\ \A c \in Callers : pc[c] = "done" /\ call[c].op = "LoadOrStoreItem"
    /\ KeyOfCall("c1") = KeyOfCall("c2")

\* exactly one call returned loaded = false, and both returned the item that
\* call was given
Agreed ==
    \E c \in Callers :
        /\ ~ret[c].ok
        /\ \A o \in Callers \ {c} : ret[o].ok
        /\ \A o \in Callers : ret[o].item = call[c].item

C34_AsStated ==
    \A c \in Callers :
        pc[c] = "done" /\ call[c].op = "LoadOrStoreItem" =>
            /\ ret[c].err # NoErr => ~ret[c].ok
            /\ ret[c].ok /\ ret[c].from = "arg" =>
                    table[KeyOfCall(c)] = ret[c].item

\* the puts of the Itemable surface
PutOps == {"StoreItem", "StoreItemIfAbsent", "StoreItemIfVersion"}

\* C35 as stated: when a put returns an error, or a conditional put returns
\* false, the item the caller passed has the attributes it had before the
\* call, whatever TimeToLiveDuration is.
C35_AsStated ==
    [][\A c \in Callers :
          /\ Returns(c, call[c].op) /\ call[c].op \in PutOps
          /\ ret'[c].err # NoErr \/ ~ret'[c].ok
          => call'[c].item = call[c].item]_vars

\* the call of c was given a value MarshalItem rejects
Unmarshallable(c) ==
    call[c].op \in TypedOps /\ call[c].val.kind = "unsupported"

\* C36: Load, Store, Delete, StoreIfAbsent and StoreIfVersion of either
\* surface send at most one request per call; a call that has ended has sent
\* exactly one, whether it succeeded, failed its condition or failed with an
\* error, unless its value could not be marshalled, and then it sent none.
C36_OneRequest ==
    \A c \in Callers :
        call[c].op \in OneShotOps \cup OneShotTypedOps =>
            /\ call[c].sent <= 1
            /\ pc[c] = "call" => call[c].sent = 0
            /\ pc[c] \in {"done", "panic"} =>
                    call[c].sent = IF Unmarshallable(c) THEN 0 ELSE 1

\* a conditional put of the typed surface has been refused on its condition,
\* and the call has ended after its one request
C36_Witness ==
    /\ pc["c1"] = "done" /\ call["c1"].op = "StoreIfAbsent"
    /\ ~ret["c1"].ok /\ ret["c1"].err = NoErr /\ ~ret["c1"].fault
    /\ ~Unmarshallable("c1")
    /\ call["c1"].sent = 1

\* a serial scan in which a fetch has failed
SerialFault == ScanConcurrency <= 1 /\ rpc # "idle" /\ hist.fault

\* C37: in a serial scan a fetch error ends the scan: the worker has stopped
\* with that error, RangeItems returns it, the items of the pages fetched
\* before were each given to the consumer exactly once and no other item
\* was, and from then on no request is sent and no consumer call made.
C37_SerialAbort ==
    /\ [](SerialFault =>
            /\ wpc[0] = "stopped" /\ wret[0] = ErrRemote
            /\ rpc = "returned" => rangeRet = ErrRemote
            /\ hist.got[0] = hist.fetched[0]
            /\ \A k \in DOMAIN hist.count :
                    hist.count[k] = IF k \in hist.fetched[0] THEN 1 ELSE 0)
    /\ [][SerialFault =>
            /\ wpc' = wpc /\ hist' = hist /\ page' = page
            /\ input' = input]_vars

\* RangeItems has returned the error of a fetch that failed after at least
\* one whole page had been fetched and delivered, with items left unscanned
C37_Witness ==
    /\ SerialFault /\ rpc = "returned" /\ rangeRet = ErrRemote
    /\ hist.got[0] # {}
    /\ hist.got[0] # DOMAIN table
    /\ input[0].ExclusiveStartKey > 0

\* C38 as stated: a DescribeTable call changes the key names of the map only
\* when setKeys is true, the described table is usable and the map's
\* HashKeyName was empty; otherwise the configured names stay as they were.
C38_AsStated ==
    npc = "returned2" /\ im # life.before =>
        /\ life.direct = "setKeys"
        /\ life.seen \in Usable
        /\ life.before.HashKeyName = ""

\* the worker is inside work
Working(w) == wpc[w] \in {"fetch", "deliver", "consume", "check"}

\* C40: a RangeItems call returns, for every fan-out, every outcome of the
\* fetches and every result of the consumer, and a worker inside work can
\* always take its next step whatever its peers are doing.
C40_ScanTerminates ==
    /\ (rpc \in {"serial", "wait"}) ~> (rpc = "returned")
    /\ [](\A w \in Workers :
            Working(w) => ENABLED (\/ Fetch(w) \/ consumerCall(w)
                                  \/ consumerReturn(w) \/ Check(w)))

\* a parallel scan has returned in which a worker stopped because a peer had
\* cancelled the context, with items of its segment left unscanned
C40_Witness ==
    /\ rpc = "returned" /\ ScanConcurrency >= 2
    /\ \E w \in Segments :
          /\ wret[w] = errEarlyTermination /\ ~hist.said[w]
          /\ lek[w] # 0

\* the first call ran without a fetch error of its own and without its
\* consumer returning false
Undisturbed == ~hist.fault /\ ~hist.sawFalse

\* something went wrong in the second call
OtherFailed == \E w \in Workers : scan2.wret[w] # NoErr

\* C39: two RangeItems calls running at the same time on one map do not
\* touch each other: a step of one leaves the workers, cursors, context and
\* result of the other as they were, the context of a call is cancelled only
\* by an error of its own workers, and a call that had no error and no early
\* stop of its own returns nil having delivered every item exactly once,
\* whatever happened in the other.
C39_Independent ==
    /\ [][/\ scan2' # scan2 => UNCHANGED scanVars
          /\ scanVars' # scanVars => scan2' = scan2]_vars
    /\ [](ctxErr => \E w \in Workers : wret[w] # NoErr)
    /\ [](scan2.ctxErr => OtherFailed)
    /\ [](rpc = "returned" /\ Undisturbed =>
            /\ rangeRet = NoErr
            /\ \A k \in DOMAIN table : hist.count[k] = 1)

\* the first call, a parallel one, has returned nil with every item
\* delivered once, while the second call is still running with its context
\* cancelled by a fetch error of one of its workers
C39_Witness ==
    /\ rpc = "returned" /\ rangeRet = NoErr /\ Undisturbed
    /\ ScanConcurrency >= 2 /\ DOMAIN table # {}
    /\ \A k \in DOMAIN table : hist.count[k] = 1
    /\ \E w \in Workers : input[w].ExclusiveStartKey > 0
    /\ scan2.rpc = "wait" /\ scan2.ctxErr
    /\ \E w \in Workers : scan2.wret[w] = ErrRemote
    /\ \E w \in Workers : scan2.wpc[w] = "work"

====
